---- MODULE Spec2Model ----
(***************************************************************************)
(* Model of yt-audio-workbench's core (src/workbench_core.py): the process  *)
(* registry and supervisor (_spawn_process, _run_capture, run_quiet,        *)
(* terminate_all_procs), the join engine (join_via_wav_then_lame) and the   *)
(* task runner (run_processing_task).                                       *)
(***************************************************************************)
EXTENDS Integers, Sequences, FiniteSets, TLC

\* ------------------------------------------------------------------ bounds
MaxProcs == 2
MaxStreams == 1
MaxFiles == 2
MaxClicks == 2
MaxRecords == 2

\* ------------------------------------------------------- program constants
\* rc = p.poll() if p.poll() is not None else -9
TimeoutRc == -9

Pids == 1..MaxProcs
Cancellers == {"ui", "aux"}
\* exit statuses a child can end with by itself
ExitCodes == {0, 1}
\* exit status of a child ended by SIGTERM / SIGKILL (Popen: -signum)
TermRc == 0 - 15
KillRc == 0 - 9

VARIABLES
    \* ---- operating system: children
    life,        \* [Pids -> {"unborn","alive","exited"}]
    returncode,  \* [Pids -> Int], meaningful when life = "exited"
    termed,      \* running children that were delivered SIGTERM / CTRL_BREAK
    nextPid,     \* next child to be created
    \* ---- workbench_core globals
    registry,    \* _CURRENT_PROCS
    cancelEvent, \* CANCEL_EVENT / the cancel_event handed to the task
    \* ---- worker thread (caller of spawn_streaming / _run_capture / run_quiet)
    wpc,         \* position of the worker thread
    wop,         \* operation in progress: "none","stream","capture","quiet"
    wcur,        \* the Popen object p of the operation in progress (0: none)
    wtimeout,    \* _run_capture was given a timeout
    wcheck,      \* _run_capture's check flag
    wrc,         \* local rc of _run_capture
    wexc,        \* exception travelling through the finally block of _run_capture
    wres,        \* outcome of the last finished operation
    streams,     \* handles returned by spawn_streaming and not yet finalized
    nstreams,    \* number of spawn_streaming calls so far
    wesc,        \* _run_capture took its except TimeoutExpired branch
    wsig,        \* its escalation signal reached the child while it was running
    wchild,      \* the lines the child of the operation writes to stderr
    werr,        \* local err of _run_capture
    \* ---- threads running terminate_all_procs
    cpc,         \* position of each thread inside terminate_all_procs
    procs,       \* its local list procs = list(_CURRENT_PROCS)
    idx,         \* index of the loop iteration in progress
    sigd,        \* children it sent the graceful signal to, this call
    kild,        \* children it sent the hard kill to, this call
    again,       \* its call in progress (or last call) was not its first
    regSince,    \* a child was registered since its last snapshot
    \* ---- join_via_wav_then_lame
    jpc,         \* position inside join_via_wav_then_lame
    jfiles,      \* files, as the sequence of their stems, in processing order
    jdirs,       \* the directory each of the files is in
    jkeep,       \* keep_temp
    jname,       \* join_name
    jmock,       \* run_quiet is the stand-in of tests/test_join_and_id3.py
    jidx,        \* loop index (1-based)
    jcalls,      \* the run_quiet invocations made so far, in order
    jtmp,        \* tmp_wavs
    jfs,         \* files present in outdir
    jres,        \* how the call ended
    \* ---- run_processing_task
    rpc,         \* position of the run: App._run, then run_processing_task
    ropt,        \* options.sleep_between
    progressQ,   \* progress_queue (App._progress_q)
    logQ,        \* log_queue (App._log_q)
    runSnaps,    \* statuses of the progress snapshots the run has emitted
    clicks,      \* number of times Cancel was pressed
    cancelSeen,  \* the cancel signal was raised before the run ended
    statusVar    \* App.status_var

supVars == <<life, returncode, termed, nextPid, registry, nstreams>>
workerVars == <<wpc, wop, wcur, wtimeout, wcheck, wrc, wexc, wres, streams, wesc,
               wsig, wchild, werr>>

cancelVars == <<cpc, procs, idx, sigd, kild, again>>
joinVars == <<jpc, jfiles, jdirs, jkeep, jname, jmock, jidx, jcalls, jtmp, jfs, jres>>
VARIABLES
    \* ---- write_cue_for_joined
    cuepc,       \* position in write_cue_for_joined
    cueParts,    \* parts: per file, what ffprobe prints and exits with, and TPE1
    cueMeta,     \* meta: (artist, duration) per part
    cueT,        \* t, in frames of 1/75 s
    cueIndex,    \* the INDEX 01 mm:ss:ff written per track
    cueLog       \* lines handed to log

VARIABLES
    \* ---- cookies: prepare_cookies / convert / validate
    ckFile,      \* cookies_file handed to prepare_cookies ("" for None)
    ckData,      \* what json.loads gives for the JSON cookies file
    ckBrowser,   \* cookies_browser ("" for None)
    ckRet,       \* what prepare_cookies returned ("None" for None)
    ckfs,        \* the files: [Paths -> text], NoFile where there is none
    ckLog,       \* lines handed to log by the last call
    ckArg,       \* path handed to the last validate_netscape_cookiefile call
    ckPre,       \* ckfs when that call started
    ckVal        \* what that call returned

VARIABLES
    \* ---- per-file stages: _sanitize_and_rename, _dedup_artist_in_filenames,
    \*      write_id3_tags_mutagen
    sgOp,        \* the stage called: "none", "sanitize", "dedup", "tag"
    sgpc,        \* "idle", "loop", "done"
    sgFiles,     \* files: the stems of the files handed to the stage
    sgI,         \* position of the file the loop is at
    sgOut,       \* out
    sgSeen,      \* seen
    sgDir,       \* stems of the files that exist in the directory
    sgAlbum,     \* album
    sgTags,      \* per position of files: the ID3 frames of that file
    sgTags0,     \* sgTags when the stage was called
    sgLog,       \* lines handed to log
    sgErr,       \* positions of the files on which a rename or a tag write failed
    sgProbes     \* exists() calls the collision loops made for the file last handled

VARIABLES
    \* ---- resolve_tool_path / have
    rspc,        \* position in resolve_tool_path: "idle", "which", "dirs", "done"
    rsVia,       \* the function called: "resolve" or "have"
    rsExe,       \* exe
    rsOs,        \* the platform: os.name and sys.platform
    rsEnv,       \* the environment variables that are set and not empty
    rsWhich,     \* what shutil.which(exe) gives ("" for None)
    rsExists,    \* the candidate locations at which a file exists
    rsProbed,    \* the locations handed to os.path.exists, in order
    rsRet,       \* what resolve_tool_path returned ("None" for None)
    rsHave       \* what have returned

VARIABLES
    \* ---- embed_id3_chapters, write_vlc_segment_playlist
    chpc,        \* position in embed_id3_chapters
    chParts,     \* its parts
    chChaps,     \* the CHAP frames added: start_time and end_time, in ms
    chLog,       \* lines it handed to log
    plpc,        \* position in write_vlc_segment_playlist
    plParts,     \* its parts
    plSegs       \* per part: start and end (in 1/150 s) and the two times written

cueVars == <<cuepc, cueParts, cueMeta, cueT, cueIndex, cueLog>>
cookieVars == <<ckFile, ckData, ckBrowser, ckRet, ckfs, ckLog, ckArg, ckPre, ckVal>>
stageVars == <<sgOp, sgpc, sgFiles, sgI, sgOut, sgSeen, sgDir, sgAlbum, sgTags, sgTags0,
               sgLog, sgErr, sgProbes>>
resolveVars == <<rspc, rsVia, rsExe, rsOs, rsEnv, rsWhich, rsExists, rsProbed, rsRet, rsHave>>
offVars == <<chpc, chParts, chChaps, chLog, plpc, plParts, plSegs>>
fnVars == <<cueVars, cookieVars, stageVars, resolveVars, offVars>>
runVars == <<rpc, ropt, progressQ, logQ, runSnaps, clicks, cancelSeen, statusVar>>
coreVars == <<supVars, cancelEvent, workerVars, cancelVars, regSince, joinVars, runVars>>
notCue == <<coreVars, cookieVars, stageVars, resolveVars, offVars>>
notCookie == <<coreVars, cueVars, stageVars, resolveVars, offVars>>
notStage == <<coreVars, cueVars, cookieVars, resolveVars, offVars>>
notResolve == <<coreVars, cueVars, cookieVars, stageVars, offVars>>
notOff == <<coreVars, cueVars, cookieVars, stageVars, resolveVars>>
vars == <<supVars, cancelEvent, workerVars, cancelVars, regSince, joinVars, runVars,
         fnVars>>

Range(q) == {q[i] : i \in 1..Len(q)}

NoJoinResult == [kind |-> "none", stage |-> "", file |-> 0, path |-> <<"", "">>]
NoResult ==
    [kind |-> "none", rc |-> 0, pid |-> 0, esc |-> FALSE, sig |-> FALSE, err |-> <<>>,
     all |-> <<>>]

\* ------------------------------------------------------------ registry
\* with _CURRENT_PROCS_LOCK: _CURRENT_PROCS.add(p)
_register_proc(reg, p) == reg \cup {p}

\* with _CURRENT_PROCS_LOCK: _CURRENT_PROCS.discard(p)
_unregister_proc(reg, p) == reg \ {p}

\* set.remove(p) raises KeyError when p is no longer in the set
UnregisterRaises_remove(reg, p) == p \notin reg

\* set.discard(p) raises nothing, whether or not p is still in the set
UnregisterRaises(reg, p) == FALSE

\* p.poll() is None
Running(p) == life[p] = "alive"

\* ------------------------------------------------------------ children
\* a running child ends by itself; once it was sent SIGTERM it may also end
\* with the signal's status
ChildExit(p) ==
    /\ life[p] = "alive"
    /\ \E rc \in ExitCodes \cup (IF p \in termed THEN {TermRc} ELSE {}) :
          returncode' = [returncode EXCEPT ![p] = rc]
    /\ life' = [life EXCEPT ![p] = "exited"]
    /\ termed' = termed \ {p}
    /\ UNCHANGED <<nextPid, nstreams, registry, cancelEvent, workerVars, cancelVars,
                   regSince, joinVars, runVars, fnVars>>

InitSup ==
    /\ life = [p \in Pids |-> "unborn"]
    /\ returncode = [p \in Pids |-> 0]
    /\ termed = {}
    /\ nextPid = 1
    /\ registry = {}
    /\ nstreams = 0
    /\ cancelEvent = FALSE

InitWorker ==
    /\ wpc = "idle"
    /\ wop = "none"
    /\ wcur = 0
    /\ wtimeout = FALSE
    /\ wcheck = FALSE
    /\ wrc = 0
    /\ wexc = "none"
    /\ wres = NoResult
    /\ streams = {}
    /\ wesc = FALSE
    /\ wsig = FALSE
    /\ wchild = <<>>
    /\ werr = <<>>

InitCancel ==
    /\ cpc = [c \in Cancellers |-> "idle"]
    /\ procs = [c \in Cancellers |-> <<>>]
    /\ idx = [c \in Cancellers |-> 1]
    /\ sigd = [c \in Cancellers |-> {}]
    /\ kild = [c \in Cancellers |-> {}]
    /\ again = [c \in Cancellers |-> FALSE]
    /\ regSince = [c \in Cancellers |-> FALSE]

InitJoin ==
    /\ jpc = "idle"
    /\ jfiles = <<>>
    /\ jdirs = <<>>
    /\ jkeep = FALSE
    /\ jname = ""
    /\ jmock = FALSE
    /\ jidx = 1
    /\ jcalls = <<>>
    /\ jtmp = <<>>
    /\ jfs = {}
    /\ jres = NoJoinResult

InitRun ==
    /\ rpc = "idle"
    /\ ropt = 0
    /\ progressQ = <<>>
    /\ logQ = <<>>
    /\ runSnaps = <<>>
    /\ clicks = 0
    /\ cancelSeen = FALSE
    /\ statusVar = "Idle"

InitCue ==
    /\ cuepc = "idle"
    /\ cueParts = <<>>
    /\ cueMeta = <<>>
    /\ cueT = 0
    /\ cueIndex = <<>>
    /\ cueLog = <<>>

\* the files of the working directory that the cookie functions touch
Paths == {"cookies.txt", "cookies.txt.withheader", "user.txt", "user.txt.withheader"}
NoFile == <<"<no file>">>
NoData == [kind |-> "none", records |-> <<>>]
NoValidation == [ok |-> FALSE, from |-> "", repaired |-> FALSE]

InitCookie ==
    /\ ckFile = ""
    /\ ckData = NoData
    /\ ckBrowser = ""
    /\ ckRet = "<not called>"
    /\ ckfs = [p \in Paths |-> NoFile]
    /\ ckLog = <<>>
    /\ ckArg = ""
    /\ ckPre = [p \in Paths |-> NoFile]
    /\ ckVal = NoValidation

InitStage ==
    /\ sgOp = "none"
    /\ sgpc = "idle"
    /\ sgFiles = <<>>
    /\ sgI = 1
    /\ sgOut = <<>>
    /\ sgSeen = {}
    /\ sgDir = {}
    /\ sgAlbum = <<>>
    /\ sgTags = <<>>
    /\ sgTags0 = <<>>
    /\ sgLog = <<>>
    /\ sgErr = {}
    /\ sgProbes = 0

InitResolve ==
    /\ rspc = "idle"
    /\ rsVia = "resolve"
    /\ rsExe = ""
    /\ rsOs = [name |-> "posix", platform |-> "linux"]
    /\ rsEnv = {}
    /\ rsWhich = ""
    /\ rsExists = {}
    /\ rsProbed = <<>>
    /\ rsRet = "<not called>"
    /\ rsHave = FALSE

InitOff ==
    /\ chpc = "idle"
    /\ chParts = <<>>
    /\ chChaps = <<>>
    /\ chLog = <<>>
    /\ plpc = "idle"
    /\ plParts = <<>>
    /\ plSegs = <<>>

Init ==
    /\ InitSup /\ InitWorker /\ InitCancel /\ InitJoin /\ InitRun
    /\ InitCue /\ InitCookie /\ InitStage /\ InitResolve /\ InitOff

\* ------------------------------------------------------------ _last_lines
\* def _last_lines(s, n=12)
TailLines == 12
\* "\n".join(s.splitlines()[-n:]), a text taken as the sequence of its lines
_last_lines(lines) ==
    IF Len(lines) <= TailLines THEN lines
    ELSE SubSeq(lines, Len(lines) - TailLines + 1, Len(lines))
\* numbers of lines a child writes to stderr
ErrLens == {0, 1, 12, 13}
\* the stderr of a child: its lines, numbered as written
ErrTexts == {[i \in 1..n |-> i] : n \in ErrLens}

\* ------------------------------------------------------ _spawn_process
\* p = subprocess.Popen(cmd, **kwargs): a new child in its own process group
Popen(op, timeout, check) ==
    /\ wpc = "idle"
    /\ nextPid <= MaxProcs
    /\ life' = [life EXCEPT ![nextPid] = "alive"]
    /\ nextPid' = nextPid + 1
    /\ wcur' = nextPid
    /\ wop' = op
    /\ wtimeout' = timeout
    /\ wcheck' = check
    /\ wpc' = "sp_register"
    /\ wres' = NoResult
    /\ UNCHANGED <<returncode, termed, registry, wrc, wexc, streams, wesc, wsig, werr,
                   regSince>>

\* _register_proc(p); return p
SpawnRegister ==
    /\ wpc = "sp_register"
    /\ registry' = _register_proc(registry, wcur)
    /\ regSince' = [c \in Cancellers |-> TRUE]
    /\ IF wop = "stream"
         THEN /\ streams' = streams \cup {wcur}
              /\ wpc' = "idle"
              /\ wop' = "none"
              /\ wcur' = 0
         ELSE /\ wpc' = "rc_communicate"
              /\ UNCHANGED <<streams, wop, wcur>>
    /\ UNCHANGED <<life, returncode, termed, nextPid, nstreams, wtimeout, wcheck,
                   wrc, wexc, wres, wesc, wsig, wchild, werr, cancelEvent, cancelVars, joinVars, runVars, fnVars>>

\* spawn_streaming(cmd): p = _spawn_process(cmd); return p
spawn_streaming ==
    /\ jpc = "idle"
    /\ nstreams < MaxStreams
    /\ nstreams' = nstreams + 1
    /\ Popen("stream", FALSE, FALSE)
    /\ wchild' = <<>>
    /\ UNCHANGED <<cancelEvent, cancelVars, joinVars, runVars, fnVars>>

\* finalize_process(p): "Remove a child from the registry after it exits"
finalize_process ==
    /\ wpc = "idle"
    /\ \E p \in streams :
          /\ ~Running(p)
          /\ registry' = _unregister_proc(registry, p)
          /\ streams' = streams \ {p}
    /\ UNCHANGED <<life, returncode, termed, nextPid, nstreams, cancelEvent, wpc,
                   wop, wcur, wtimeout, wcheck, wrc, wexc, wres, wesc, wsig, wchild, werr, cancelVars, regSince,
                   joinVars, runVars, fnVars>>

\* ---------------------------------------------------------- _run_capture
\* a direct call of _run_capture(cmd, timeout=..., check=...)
RunCaptureCall ==
    /\ jpc = "idle"
    /\ \E t \in BOOLEAN, ck \in BOOLEAN : Popen("capture", t, ck)
    /\ wchild' \in ErrTexts
    /\ UNCHANGED <<nstreams, cancelEvent, cancelVars, joinVars, runVars, fnVars>>

\* a direct call of run_quiet(cmd, timeout=...): _run_capture(..., check=False)
RunQuietCall ==
    /\ jpc = "idle"
    /\ \E t \in BOOLEAN : Popen("quiet", t, FALSE)
    /\ wchild' \in ErrTexts
    /\ UNCHANGED <<nstreams, cancelEvent, cancelVars, joinVars, runVars, fnVars>>

\* out, err = p.communicate(timeout=timeout) returns: the child ended;
\* else-branch: rc = p.returncode
RcCommunicate ==
    /\ wpc = "rc_communicate"
    /\ ~Running(wcur)
    /\ wrc' = returncode[wcur]
    /\ werr' = wchild
    /\ wpc' = "rc_finally"
    /\ UNCHANGED <<supVars, cancelEvent, wop, wcur, wtimeout, wcheck, wexc, wres,
                   streams, wesc, wsig, wchild, cancelVars, regSince, joinVars, runVars, fnVars>>

\* p.communicate(timeout=timeout) raises subprocess.TimeoutExpired
RcTimeoutExpired ==
    /\ wpc = "rc_communicate"
    /\ wtimeout
    /\ Running(wcur)
    /\ wesc' = TRUE
    /\ wpc' = "rc_terminate"
    /\ UNCHANGED <<supVars, cancelEvent, wop, wcur, wtimeout, wcheck, wrc, wexc, wres,
                   streams, wsig, wchild, werr, cancelVars, regSince, joinVars, runVars, fnVars>>

\* p.communicate raises anything else: no except clause matches, only the
\* finally block runs and the exception goes on to the caller
RcCommunicateRaises ==
    /\ wpc = "rc_communicate"
    /\ wexc' = "error"
    /\ wpc' = "rc_finally"
    /\ UNCHANGED <<supVars, cancelEvent, wop, wcur, wtimeout, wcheck, wrc, wres,
                   streams, wesc, wsig, wchild, werr, cancelVars, regSince, joinVars, runVars, fnVars>>

\* os.killpg(os.getpgid(p.pid), signal.SIGTERM), every exception swallowed
RcTerminate ==
    /\ wpc = "rc_terminate"
    /\ termed' = IF Running(wcur) THEN termed \cup {wcur} ELSE termed
    /\ wsig' = Running(wcur)
    /\ wpc' = "rc_grace"
    /\ UNCHANGED <<life, returncode, nextPid, nstreams, registry, cancelEvent, wop,
                   wcur, wtimeout, wcheck, wrc, wexc, wres, streams, wesc, wchild, werr, cancelVars,
                   regSince, joinVars, runVars, fnVars>>

\* finally: try: out, err = p.communicate(timeout=1.0)
\*          except Exception: out, err = "", ""
\* returns when the child ended within the grace period, gives up otherwise;
\* nothing is sent to the child here
RcGrace ==
    /\ wpc = "rc_grace"
    /\ werr' = IF Running(wcur) THEN <<>> ELSE wchild
    /\ wpc' = "rc_poll"
    /\ UNCHANGED <<supVars, cancelEvent, wop, wcur, wtimeout, wcheck, wrc, wexc, wres,
                   streams, wesc, wsig, wchild, cancelVars, regSince, joinVars, runVars, fnVars>>

\* rc = p.poll() if p.poll() is not None else -9
RcPoll ==
    /\ wpc = "rc_poll"
    /\ wrc' = IF Running(wcur) THEN TimeoutRc ELSE returncode[wcur]
    /\ wpc' = "rc_finally"
    /\ UNCHANGED <<supVars, cancelEvent, wop, wcur, wtimeout, wcheck, wexc, wres,
                   streams, wesc, wsig, wchild, werr, cancelVars, regSince, joinVars, runVars, fnVars>>

\* deregistration placed after the try statement instead of in its finally:
\* skipped when an exception is travelling
RcFinally_NotInFinally ==
    /\ wpc = "rc_finally"
    /\ registry' = IF wexc = "none" THEN _unregister_proc(registry, wcur) ELSE registry
    /\ wpc' = "rc_return"
    /\ UNCHANGED <<life, returncode, termed, nextPid, nstreams, cancelEvent, wop,
                   wcur, wtimeout, wcheck, wrc, wexc, wres, streams, wesc, wsig, wchild, werr, cancelVars,
                   regSince, joinVars, runVars, fnVars>>

\* finally: _unregister_proc(p)
RcFinally ==
    /\ wpc = "rc_finally"
    /\ registry' = _unregister_proc(registry, wcur)
    /\ wpc' = "rc_return"
    /\ UNCHANGED <<life, returncode, termed, nextPid, nstreams, cancelEvent, wop,
                   wcur, wtimeout, wcheck, wrc, wexc, wres, streams, wesc, wsig, wchild, werr, cancelVars,
                   regSince, joinVars, runVars, fnVars>>

\* what the finished call hands to its caller:
\*   _run_capture: raise CalledProcessError if check and rc != 0, else (rc, out, err)
\*   run_quiet:    return rc, _last_lines(err or "")       -- a 2-tuple
ResultOf(kind, rc, err) ==
    [kind |-> kind, rc |-> rc, pid |-> wcur, esc |-> wesc, sig |-> wsig, err |-> err,
     all |-> wchild]
RunResult ==
    IF wexc # "none" THEN ResultOf("raised", 0, <<>>)
    ELSE IF wop = "capture" /\ wcheck /\ wrc # 0
           THEN ResultOf("raised_cpe", wrc, _last_lines(werr))
    ELSE IF wop = "quiet" THEN ResultOf("tuple", wrc, _last_lines(werr))
    ELSE ResultOf("triple", wrc, werr)

\* control goes back to the caller of _run_capture / run_quiet
RcReturn ==
    /\ wpc = "rc_return"
    /\ wres' = RunResult
    /\ wpc' = "idle"
    /\ wop' = "none"
    /\ wcur' = 0
    /\ wexc' = "none"
    /\ wtimeout' = FALSE
    /\ wcheck' = FALSE
    /\ wrc' = 0
    /\ wesc' = FALSE
    /\ wsig' = FALSE
    /\ wchild' = <<>>
    /\ werr' = <<>>
    /\ UNCHANGED <<supVars, cancelEvent, streams, cancelVars, regSince, joinVars,
                   runVars, fnVars>>

\* ---------------------------------------------------- terminate_all_procs
\* the orders in which list(a_set) can enumerate the set
Orders(S) ==
    {q \in [1..Cardinality(S) -> S] : \A i, j \in 1..Cardinality(S) :
                                         i # j => q[i] # q[j]}

\* end of one loop iteration: next element, or the next loop / the return
Advance(c, nextLoop) ==
    IF idx[c] < Len(procs[c])
      THEN /\ idx' = [idx EXCEPT ![c] = idx[c] + 1]
           /\ cpc' = [cpc EXCEPT ![c] = cpc[c]]
      ELSE /\ idx' = [idx EXCEPT ![c] = 1]
           /\ cpc' = [cpc EXCEPT ![c] = nextLoop]

Returned(c) == cpc[c] = "returned"

\* with _CURRENT_PROCS_LOCK: procs = list(_CURRENT_PROCS)
\* (with nothing registered all four loops run zero times and the call returns)
TerminateStart(c) ==
    /\ cpc[c] \in {"idle", "returned"}
    /\ \E q \in Orders(registry) :
          /\ procs' = [procs EXCEPT ![c] = q]
          /\ cpc' = [cpc EXCEPT ![c] = IF q = <<>> THEN "returned" ELSE "graceful"]
    /\ again' = [again EXCEPT ![c] = (cpc[c] = "returned")]
    /\ regSince' = [regSince EXCEPT ![c] = FALSE]
    /\ UNCHANGED <<supVars, cancelEvent, workerVars, idx, sigd, kild, joinVars,
                   runVars, fnVars>>

\* a graceful loop that signals nothing
Graceful_NoSignal(c) ==
    /\ cpc[c] = "graceful"
    /\ Advance(c, "wait")
    /\ UNCHANGED <<supVars, cancelEvent, workerVars, procs, sigd, kild, again,
                   regSince, joinVars, runVars, fnVars>>

\* 1) Graceful: if p.poll() is not None: continue;
\*    os.killpg(os.getpgid(p.pid), signal.SIGTERM)   (CTRL_BREAK_EVENT on nt)
\*    except Exception: p.terminate()
Graceful(c) ==
    /\ cpc[c] = "graceful"
    /\ LET p == procs[c][idx[c]] IN
          IF Running(p)
            THEN /\ termed' = termed \cup {p}
                 /\ sigd' = [sigd EXCEPT ![c] = @ \cup {p}]
            ELSE UNCHANGED <<termed, sigd>>
    /\ Advance(c, "wait")
    /\ UNCHANGED <<life, returncode, nextPid, nstreams, registry, cancelEvent,
                   workerVars, procs, kild, again, regSince, joinVars, runVars, fnVars>>

\* 2) Wait a bit: if p.poll() is None: remaining = deadline - time.time();
\*    if remaining > 0: p.wait(remaining)     (TimeoutExpired swallowed)
\* The iteration ends when p has ended or when the one deadline of the loop
\* has passed (it is then passed for every later iteration too); it touches
\* no shared state either way.
Wait(c) ==
    /\ cpc[c] = "wait"
    /\ Advance(c, "kill")
    /\ UNCHANGED <<supVars, cancelEvent, workerVars, procs, sigd, kild, again,
                   regSince, joinVars, runVars, fnVars>>

\* 3) Hard kill leftovers: if p.poll() is None:
\*    os.killpg(os.getpgid(p.pid), signal.SIGKILL)   (p.kill() on nt)
HardKill(c) ==
    /\ cpc[c] = "kill"
    /\ LET p == procs[c][idx[c]] IN
          IF Running(p)
            THEN /\ life' = [life EXCEPT ![p] = "exited"]
                 /\ returncode' = [returncode EXCEPT ![p] = KillRc]
                 /\ termed' = termed \ {p}
                 /\ kild' = [kild EXCEPT ![c] = @ \cup {p}]
            ELSE UNCHANGED <<life, returncode, termed, kild>>
    /\ Advance(c, "cleanup")
    /\ UNCHANGED <<nextPid, nstreams, registry, cancelEvent, workerVars, procs,
                   sigd, again, regSince, joinVars, runVars, fnVars>>

\* Cleanup registry: for p in procs: _unregister_proc(p)
\* (outside any try: an exception here would leave terminate_all_procs);
\* after the last iteration the call returns and its locals are gone
Cleanup(c) ==
    /\ cpc[c] = "cleanup"
    /\ registry' = _unregister_proc(registry, procs[c][idx[c]])
    /\ IF UnregisterRaises(registry, procs[c][idx[c]])
         THEN /\ cpc' = [cpc EXCEPT ![c] = "raised"]
              /\ UNCHANGED <<idx, procs, sigd, kild>>
         ELSE IF idx[c] < Len(procs[c])
         THEN /\ idx' = [idx EXCEPT ![c] = idx[c] + 1]
              /\ UNCHANGED <<cpc, procs, sigd, kild>>
         ELSE /\ idx' = [idx EXCEPT ![c] = 1]
              /\ cpc' = [cpc EXCEPT ![c] = "returned"]
              /\ procs' = [procs EXCEPT ![c] = <<>>]
              /\ sigd' = [sigd EXCEPT ![c] = {}]
              /\ kild' = [kild EXCEPT ![c] = {}]
    /\ UNCHANGED <<life, returncode, termed, nextPid, nstreams, cancelEvent,
                   workerVars, again, regSince, joinVars, runVars, fnVars>>

\* ------------------------------------------------------------------ supervisor
\* the worker thread's operations, one thread ("ui") cancelling
Next ==
    \/ \E p \in Pids : ChildExit(p)
    \/ spawn_streaming
    \/ finalize_process
    \/ RunCaptureCall
    \/ RunQuietCall
    \/ SpawnRegister
    \/ RcCommunicate
    \/ RcTimeoutExpired
    \/ RcCommunicateRaises
    \/ RcTerminate
    \/ RcGrace
    \/ RcPoll
    \/ RcFinally
    \/ RcReturn
    \/ TerminateStart("ui")
    \/ Graceful("ui")
    \/ Wait("ui")
    \/ HardKill("ui")
    \/ Cleanup("ui")

Spec == Init /\ [][Next]_vars

\* streaming children, several threads cancelling at once
NextCancel ==
    \/ \E p \in Pids : ChildExit(p)
    \/ spawn_streaming
    \/ finalize_process
    \/ SpawnRegister
    \/ \E c \in Cancellers : TerminateStart(c)
    \/ \E c \in Cancellers : Graceful(c)
    \/ \E c \in Cancellers : Wait(c)
    \/ \E c \in Cancellers : HardKill(c)
    \/ \E c \in Cancellers : Cleanup(c)

SpecCancel == Init /\ [][NextCancel]_vars

\* -------------------------------------------------- join_via_wav_then_lame
Stems == {"a", "b"}
JoinNames == {"", "album"}
FileLists == UNION {[1..n -> Stems] : n \in 0..MaxFiles}

\* the directories of n files: all in one directory, or each in its own
DirLists(n) == {[i \in 1..n |-> 1], [i \in 1..n |-> i]}

\* random.shuffle(files): any order of the same files
Shuffles(fl) ==
    {[i \in 1..Len(fl) |-> fl[q[i]]] : q \in Orders(1..Len(fl))}

\* outdir / f"._tmp_{f.stem}.wav"
Wav(stem) == <<"._tmp_.wav", stem>>
\* outdir / "._concat_list.txt"
ListFile == <<"._concat_list.txt", "">>
\* outdir / "._concat.wav"
ConcatWav == <<"._concat.wav", "">>
\* outdir / f"{join_name or 'joined'}.mp3"
Joined(name) == <<".mp3", IF name = "" THEN "joined" ELSE name>>

\* tests/test_join_and_id3.py, mock_run_quiet: logs the command, touches the
\* output file, returns the int 0
MockResult ==
    [kind |-> "int", rc |-> 0, pid |-> 0, esc |-> FALSE, sig |-> FALSE, err |-> <<>>,
     all |-> <<>>]

\* Python's `rc != 0` on what run_quiet handed back: an int compares by
\* value, a tuple is never equal to 0
NotEqualZero(res) == IF res.kind = "int" THEN res.rc # 0 ELSE TRUE

\* rc = run_quiet(cmd): the call
InvokeRunQuiet ==
    /\ wpc = "idle"
    /\ IF jmock
         THEN /\ wres' = MockResult
              /\ UNCHANGED <<supVars, wpc, wop, wcur, wtimeout, wcheck, wrc, wexc,
                             streams, wesc, wsig, wchild, werr, regSince>>
         ELSE /\ Popen("quiet", FALSE, FALSE)
              /\ wchild' = <<>>
              /\ UNCHANGED nstreams
    /\ UNCHANGED <<cancelEvent, cancelVars, jfiles, jdirs, jkeep, jname, jmock, jidx, jcalls,
                   jtmp, jfs, jres, runVars, fnVars>>

\* rc = run_quiet(cmd): control is back in join
RunQuietBack == wpc = "idle" /\ wres.kind \in {"int", "tuple"}

\* the output file of an ended invocation: written when it ended with 0 (the
\* stand-in always touches it), possibly left behind when it failed
OutputsAfter(res, out) ==
    IF res.kind = "int" \/ res.rc = 0 THEN {jfs \cup {out}}
    ELSE {jfs, jfs \cup {out}}

Invocation(step) == [step |-> step, input |-> jidx, rc |-> wres.rc]

\* join_via_wav_then_lame(files, outdir, sr, br_kbps, join_name, log, shuffle,
\*                        keep_temp): shuffle, tmp_wavs = [], step = 0
JoinCall ==
    /\ jpc \in {"idle", "done"}
    /\ wpc = "idle"
    /\ \E fl \in FileLists, sh \in BOOLEAN :
          \E q \in (IF sh THEN Shuffles(fl) ELSE {fl}) : jfiles' = q
    /\ jdirs' \in DirLists(Len(jfiles'))
    /\ jkeep' \in BOOLEAN
    /\ jname' \in JoinNames
    /\ jmock' \in BOOLEAN
    /\ jidx' = 1
    /\ jcalls' = <<>>
    /\ jtmp' = <<>>
    /\ jres' = NoJoinResult
    /\ jpc' = "loop"
    /\ wres' = NoResult
    /\ UNCHANGED <<supVars, cancelEvent, wpc, wop, wcur, wtimeout, wcheck, wrc, wexc,
                   streams, wesc, wsig, wchild, werr, cancelVars, regSince, jfs, runVars, fnVars>>

\* for idx, f in enumerate(files): wav = ...; rc = run_quiet(["ffmpeg", "-y",
\*    "-i", str(f), "-ar", str(sr), str(wav)])
JoinTranscodeCall ==
    /\ jpc = "loop"
    /\ jidx <= Len(jfiles)
    /\ InvokeRunQuiet
    /\ jpc' = "transcoding"

\* if rc != 0: raise RuntimeError(f"WAV transcode failed for {f.name}")
\* tmp_wavs.append(wav); step += 1
JoinTranscodeReturn ==
    /\ jpc = "transcoding"
    /\ RunQuietBack
    /\ jcalls' = Append(jcalls, Invocation("transcode"))
    /\ jfs' \in OutputsAfter(wres, Wav(jfiles[jidx]))
    /\ IF NotEqualZero(wres)
         THEN /\ jres' = [kind |-> "raised", stage |-> "transcode", file |-> jidx,
                          path |-> <<"", "">>]
              /\ jpc' = "finally"
              /\ UNCHANGED <<jtmp, jidx>>
         ELSE /\ jtmp' = Append(jtmp, Wav(jfiles[jidx]))
              /\ jidx' = jidx + 1
              /\ jpc' = "loop"
              /\ UNCHANGED jres
    /\ wres' = NoResult
    /\ UNCHANGED <<supVars, cancelEvent, wpc, wop, wcur, wtimeout, wcheck, wrc, wexc,
                   streams, wesc, wsig, wchild, werr, cancelVars, regSince, jfiles, jdirs, jkeep, jname, jmock,
                   runVars, fnVars>>

\* listfile = outdir / "._concat_list.txt"; listfile.write_text(...)
JoinWriteList ==
    /\ jpc = "loop"
    /\ jidx > Len(jfiles)
    /\ jfs' = jfs \cup {ListFile}
    /\ jpc' = "concat"
    /\ UNCHANGED <<supVars, cancelEvent, workerVars, cancelVars, regSince, jfiles, jdirs,
                   jkeep, jname, jmock, jidx, jcalls, jtmp, jres, runVars, fnVars>>

\* rc = run_quiet(["ffmpeg", "-y", "-f", "concat", "-safe", "0", "-i",
\*                 str(listfile), str(concat_wav)])
JoinConcatCall ==
    /\ jpc = "concat"
    /\ InvokeRunQuiet
    /\ jpc' = "concatenating"

\* if rc != 0: raise RuntimeError("WAV concat failed")
JoinConcatReturn ==
    /\ jpc = "concatenating"
    /\ RunQuietBack
    /\ jcalls' = Append(jcalls, Invocation("concat"))
    /\ jfs' \in OutputsAfter(wres, ConcatWav)
    /\ IF NotEqualZero(wres)
         THEN /\ jres' = [kind |-> "raised", stage |-> "concat", file |-> 0,
                          path |-> <<"", "">>]
              /\ jpc' = "finally"
         ELSE /\ jpc' = "encode"
              /\ UNCHANGED jres
    /\ wres' = NoResult
    /\ UNCHANGED <<supVars, cancelEvent, wpc, wop, wcur, wtimeout, wcheck, wrc, wexc,
                   streams, wesc, wsig, wchild, werr, cancelVars, regSince, jfiles, jdirs, jkeep, jname, jmock,
                   jidx, jtmp, runVars, fnVars>>

\* joined = outdir / f"{join_name or 'joined'}.mp3"
\* rc = run_quiet(["ffmpeg", "-y", "-i", str(concat_wav), "-codec:a",
\*                 "libmp3lame", "-b:a", f"{br_kbps}k", str(joined)])
JoinEncodeCall ==
    /\ jpc = "encode"
    /\ InvokeRunQuiet
    /\ jpc' = "encoding"

\* if rc != 0: raise RuntimeError("LAME encode failed")
\* return joined
JoinEncodeReturn ==
    /\ jpc = "encoding"
    /\ RunQuietBack
    /\ jcalls' = Append(jcalls, Invocation("encode"))
    /\ jfs' \in OutputsAfter(wres, Joined(jname))
    /\ jres' = IF NotEqualZero(wres)
                 THEN [kind |-> "raised", stage |-> "encode", file |-> 0,
                       path |-> <<"", "">>]
                 ELSE [kind |-> "returned", stage |-> "", file |-> 0,
                       path |-> Joined(jname)]
    /\ jpc' = "finally"
    /\ wres' = NoResult
    /\ UNCHANGED <<supVars, cancelEvent, wpc, wop, wcur, wtimeout, wcheck, wrc, wexc,
                   streams, wesc, wsig, wchild, werr, cancelVars, regSince, jfiles, jdirs, jkeep, jname, jmock,
                   jidx, jtmp, runVars, fnVars>>

\* finally: if not keep_temp: unlink every tmp_wavs entry, then
\*          outdir / "._concat.wav" and outdir / "._concat_list.txt"
JoinFinally ==
    /\ jpc = "finally"
    /\ jfs' = IF jkeep THEN jfs ELSE jfs \ (Range(jtmp) \cup {ConcatWav, ListFile})
    /\ jpc' = "done"
    /\ UNCHANGED <<supVars, cancelEvent, workerVars, cancelVars, regSince, jfiles, jdirs,
                   jkeep, jname, jmock, jidx, jcalls, jtmp, jres, runVars, fnVars>>

NextJoin ==
    \/ \E p \in Pids : ChildExit(p)
    \/ JoinCall
    \/ JoinTranscodeCall
    \/ JoinTranscodeReturn
    \/ JoinWriteList
    \/ JoinConcatCall
    \/ JoinConcatReturn
    \/ JoinEncodeCall
    \/ JoinEncodeReturn
    \/ JoinFinally
    \/ SpawnRegister
    \/ RcCommunicate
    \/ RcFinally
    \/ RcReturn

SpecJoin == Init /\ [][NextJoin]_vars

\* App._cancel: CANCEL_EVENT.set()
CancelSet ==
    /\ ~cancelEvent
    /\ cancelEvent' = TRUE
    /\ UNCHANGED <<supVars, workerVars, cancelVars, regSince, joinVars, runVars, fnVars>>

NextJoinCancel ==
    \/ NextJoin
    \/ CancelSet

\* join while the user may press Cancel
SpecJoinCancel == Init /\ [][NextJoinCancel]_vars

\* ------------------------------------------------------ run_processing_task
SleepChoices == {0, 3}

\* _progress(pct, status): progress_queue.put({"pct": pct, "status": status})
Snapshot(pct, status) == [pct |-> pct, status |-> status]
\* pct = None
NoPct == 0 - 1

\* App._run: CANCEL_EVENT.clear(); run button disabled, cancel button enabled;
\* status "Running..."; the options are built and the worker thread started
AppRun ==
    /\ rpc = "idle"
    /\ cancelEvent' = FALSE
    /\ statusVar' = "Running..."
    /\ ropt' \in SleepChoices
    /\ rpc' = "log_start"
    /\ UNCHANGED <<supVars, workerVars, cancelVars, regSince, joinVars, fnVars, progressQ,
                   logQ, runSnaps, clicks, cancelSeen>>

\* App._cancel (the button is enabled once a run was started):
\* CANCEL_EVENT.set(); self.log("Cancel requested; ..."); terminate_all_procs()
\* -- the task spawns no child, so terminate_all_procs finds nothing registered
AppCancel ==
    /\ rpc # "idle"
    /\ clicks < MaxClicks
    /\ registry = {}
    /\ clicks' = clicks + 1
    /\ cancelEvent' = TRUE
    /\ cancelSeen' = (cancelSeen \/ rpc # "ended")
    /\ logQ' = Append(logQ, "Cancel requested; terminating subprocesses...")
    /\ UNCHANGED <<supVars, workerVars, cancelVars, regSince, joinVars, fnVars, rpc, ropt,
                   progressQ, runSnaps, statusVar>>

\* _log("[core] starting task")
TaskLogStart ==
    /\ rpc = "log_start"
    /\ logQ' = Append(logQ, "[core] starting task")
    /\ rpc' = "progress_start"
    /\ UNCHANGED <<supVars, cancelEvent, workerVars, cancelVars, regSince, joinVars, fnVars,
                   ropt, progressQ, runSnaps, clicks, cancelSeen, statusVar>>

\* _progress(0, "Starting")
TaskProgressStart ==
    /\ rpc = "progress_start"
    /\ progressQ' = Append(progressQ, Snapshot(0, "Starting"))
    /\ runSnaps' = Append(runSnaps, "Starting")
    /\ rpc' = "check"
    /\ UNCHANGED <<supVars, cancelEvent, workerVars, cancelVars, regSince, joinVars, fnVars,
                   ropt, logQ, clicks, cancelSeen, statusVar>>

\* if getattr(options, "sleep_between", 0):
\*     if cancel_event.is_set():
TaskCheck ==
    /\ rpc = "check"
    /\ rpc' = IF ropt # 0 /\ cancelEvent THEN "log_cancelled" ELSE "progress_done"
    /\ UNCHANGED <<supVars, cancelEvent, workerVars, cancelVars, regSince, joinVars, fnVars,
                   ropt, progressQ, logQ, runSnaps, clicks, cancelSeen, statusVar>>

\* _log("[core] cancelled")
TaskLogCancelled ==
    /\ rpc = "log_cancelled"
    /\ logQ' = Append(logQ, "[core] cancelled")
    /\ rpc' = "progress_cancelled"
    /\ UNCHANGED <<supVars, cancelEvent, workerVars, cancelVars, regSince, joinVars, fnVars,
                   ropt, progressQ, runSnaps, clicks, cancelSeen, statusVar>>

\* the return after the Cancelled snapshot is missing: control falls through
TaskProgressCancelled_NoReturn ==
    /\ rpc = "progress_cancelled"
    /\ progressQ' = Append(progressQ, Snapshot(NoPct, "Cancelled"))
    /\ runSnaps' = Append(runSnaps, "Cancelled")
    /\ rpc' = "progress_done"
    /\ UNCHANGED <<supVars, cancelEvent, workerVars, cancelVars, regSince, joinVars, fnVars,
                   ropt, logQ, clicks, cancelSeen, statusVar>>

\* _progress(None, "Cancelled"); return
TaskProgressCancelled ==
    /\ rpc = "progress_cancelled"
    /\ progressQ' = Append(progressQ, Snapshot(NoPct, "Cancelled"))
    /\ runSnaps' = Append(runSnaps, "Cancelled")
    /\ rpc' = "ended"
    /\ UNCHANGED <<supVars, cancelEvent, workerVars, cancelVars, regSince, joinVars, fnVars,
                   ropt, logQ, clicks, cancelSeen, statusVar>>

\* _progress(100, "Done")
TaskProgressDone ==
    /\ rpc = "progress_done"
    /\ progressQ' = Append(progressQ, Snapshot(100, "Done"))
    /\ runSnaps' = Append(runSnaps, "Done")
    /\ rpc' = "log_finished"
    /\ UNCHANGED <<supVars, cancelEvent, workerVars, cancelVars, regSince, joinVars, fnVars,
                   ropt, logQ, clicks, cancelSeen, statusVar>>

\* _log("[core] finished")
TaskLogFinished ==
    /\ rpc = "log_finished"
    /\ logQ' = Append(logQ, "[core] finished")
    /\ rpc' = "ended"
    /\ UNCHANGED <<supVars, cancelEvent, workerVars, cancelVars, regSince, joinVars, fnVars,
                   ropt, progressQ, runSnaps, clicks, cancelSeen, statusVar>>

\* App._poll_progress (every 100 ms): drains the queue; a snapshot with a
\* status sets status_var
PollProgress ==
    /\ progressQ # <<>>
    /\ statusVar' = progressQ[Len(progressQ)].status
    /\ progressQ' = <<>>
    /\ UNCHANGED <<supVars, cancelEvent, workerVars, cancelVars, regSince, joinVars, fnVars,
                   rpc, ropt, logQ, runSnaps, clicks, cancelSeen>>

\* App._poll_log (every 100 ms): drains the queue into the log widget
PollLog ==
    /\ logQ # <<>>
    /\ logQ' = <<>>
    /\ UNCHANGED <<supVars, cancelEvent, workerVars, cancelVars, regSince, joinVars, fnVars,
                   rpc, ropt, progressQ, runSnaps, clicks, cancelSeen, statusVar>>

NextRun ==
    \/ AppRun
    \/ AppCancel
    \/ TaskLogStart
    \/ TaskProgressStart
    \/ TaskCheck
    \/ TaskLogCancelled
    \/ TaskProgressCancelled
    \/ TaskProgressDone
    \/ TaskLogFinished
    \/ PollProgress
    \/ PollLog

SpecRun == Init /\ [][NextRun]_vars

\* ------------------------------------------------------------ run_capture
\* keyword arguments run_capture hands to _run_capture, and the keyword
\* parameters _run_capture has
RunCaptureKeywords == {"cwd", "env", "text"}
RunCaptureParams == {"timeout", "check", "cwd"}

\* run_capture(cmd) on a child that would print `out` and exit with `rc`:
\* rc, out, err = _run_capture(cmd, cwd=cwd, env=env, text=text)
\* if rc != 0: raise RuntimeError(...);  return out
run_capture(child) ==
    IF ~(RunCaptureKeywords \subseteq RunCaptureParams)
      THEN [kind |-> "raised", exc |-> "TypeError", out |-> 0]
    ELSE IF child.rc # 0
      THEN [kind |-> "raised", exc |-> "CalledProcessError", out |-> 0]
    ELSE [kind |-> "returned", exc |-> "", out |-> child.out]

\* ---------------------------------------------- _ffprobe_duration_seconds
\* durations are counted in half frames (1/150 s)
Max(a, b) == IF a >= b THEN a ELSE b

\* out = run_capture([...]); d = float(out.strip()); return max(0.0, d)
\* except Exception as e: log(...); return 0.0
_ffprobe_duration_seconds(child) ==
    LET r == run_capture(child)
    IN  IF r.kind = "raised" THEN [d |-> 0, logged |-> TRUE]
        ELSE [d |-> Max(0, r.out), logged |-> FALSE]

\* ------------------------------------------------------ write_cue_for_joined
\* what ffprobe prints for a file (in half frames), its exit status, and the
\* TPE1 tag of the file
Durations == {0, 150, 301}
ProbeExits == {0, 1}
Artists == {"", "X"}
Part == [out : Durations, rc : ProbeExits, artist : Artists]
PartLists == UNION {[1..n -> Part] : n \in 0..MaxFiles}

\* fps = 75; frames = int(round(t * fps)): t is in seconds, round() rounds a
\* half to the even neighbour
Fps == 75
FramesOf(t) ==
    LET q == t \div 2
    IN  IF t % 2 = 0 THEN q ELSE IF q % 2 = 0 THEN q ELSE q + 1
\* mm = frames // (60 * fps); ss = (frames // fps) % 60; ff = frames % fps
IndexOf(frames) ==
    <<frames \div (60 * Fps), (frames \div Fps) % 60, frames % Fps>>

\* write_cue_for_joined(joined_mp3, parts, log)
CueCall ==
    /\ cuepc \in {"idle", "done"}
    /\ cueParts' \in PartLists
    /\ cueMeta' = <<>>
    /\ cueT' = 0
    /\ cueIndex' = <<>>
    /\ cueLog' = <<>>
    /\ cuepc' = "import"
    /\ UNCHANGED notCue

\* from mutagen.id3 import ID3
\* except Exception as e: log("mutagen not available ..."); return
CueImport ==
    /\ cuepc = "import"
    /\ \E ok \in BOOLEAN :
          IF ok THEN cuepc' = "meta" /\ UNCHANGED cueLog
          ELSE /\ cuepc' = "done"
               /\ cueLog' = Append(cueLog, "mutagen not available for CUE metadata")
    /\ UNCHANGED <<notCue, cueParts, cueMeta, cueT, cueIndex>>

\* for p in parts: ...; meta.append((title, artist, _ffprobe_duration_seconds(p, log)))
CueProbe ==
    /\ cuepc = "meta"
    /\ Len(cueMeta) < Len(cueParts)
    /\ LET p == cueParts[Len(cueMeta) + 1]
           r == _ffprobe_duration_seconds([out |-> p.out, rc |-> p.rc])
       IN  /\ cueMeta' = Append(cueMeta, [artist |-> p.artist, dur |-> r.d])
           /\ cueLog' = IF r.logged THEN Append(cueLog, "ffprobe duration failed")
                        ELSE cueLog
    /\ UNCHANGED <<notCue, cuepc, cueParts, cueT, cueIndex>>

\* lines = [TITLE, PERFORMER, FILE]; fps = 75; t = 0.0
CueHeader ==
    /\ cuepc = "meta"
    /\ Len(cueMeta) = Len(cueParts)
    /\ cueT' = 0
    /\ cuepc' = "tracks"
    /\ UNCHANGED <<notCue, cueParts, cueMeta, cueIndex, cueLog>>

\* for i, (title, artist, dur) in enumerate(meta, start=1):
\*     frames = int(round(t * fps)); ...; INDEX 01 mm:ss:ff; t += dur
CueTrack ==
    /\ cuepc = "tracks"
    /\ Len(cueIndex) < Len(cueMeta)
    /\ cueIndex' = Append(cueIndex, IndexOf(FramesOf(cueT)))
    /\ cueT' = cueT + cueMeta[Len(cueIndex) + 1].dur
    /\ UNCHANGED <<notCue, cuepc, cueParts, cueMeta, cueLog>>

\* cue.write_text(...); log(f"Wrote CUE: {cue.name}")
\* except Exception as e: log(f"CUE write failed: {e}")
CueWrite ==
    /\ cuepc = "tracks"
    /\ Len(cueIndex) = Len(cueMeta)
    /\ \E ok \in BOOLEAN :
          cueLog' = Append(cueLog, IF ok THEN "Wrote CUE" ELSE "CUE write failed")
    /\ cuepc' = "done"
    /\ UNCHANGED <<notCue, cueParts, cueMeta, cueT, cueIndex>>

NextCue ==
    \/ CueCall
    \/ CueImport
    \/ CueProbe
    \/ CueHeader
    \/ CueTrack
    \/ CueWrite

SpecCue == Init /\ [][NextCue]_vars

\* ------------------------------------------------------------------ text
\* a text is a sequence of characters; TAB, LF and CR stand for "\t", "\n"
\* and "\r"; a literal the code writes or tests as a whole is one element
TAB == "TAB"
LF == "LF"
CR == "CR"

StartsWith(t, ch) == Len(t) > 0 /\ t[1] = ch
EndsWith(t, ch) == Len(t) > 0 /\ t[Len(t)] = ch

\* str.replace(old, new) for a single character old
Replace(t, old, new) == [i \in 1..Len(t) |-> IF t[i] = old THEN new ELSE t[i]]

RECURSIVE LStrip(_, _)
\* str.lstrip(chars)
LStrip(t, chars) ==
    IF t # <<>> /\ t[1] \in chars THEN LStrip(Tail(t), chars) ELSE t

RECURSIVE RStrip(_, _)
RStrip(t, chars) ==
    IF t # <<>> /\ t[Len(t)] \in chars THEN RStrip(SubSeq(t, 1, Len(t) - 1), chars)
    ELSE t

Whitespace == {TAB, LF, CR, " "}
\* str.strip()
Strip(t) == RStrip(LStrip(t, Whitespace), Whitespace)

RECURSIVE JoinWith(_, _)
\* sep.join(parts)
JoinWith(parts, sep) ==
    IF parts = <<>> THEN <<>>
    ELSE IF Len(parts) = 1 THEN parts[1]
    ELSE parts[1] \o <<sep>> \o JoinWith(Tail(parts), sep)

RECURSIVE SplitAt(_, _)
\* str.split(sep): always at least one piece
SplitAt(t, sep) ==
    IF \A i \in 1..Len(t) : t[i] # sep THEN <<t>>
    ELSE LET k == CHOOSE i \in 1..Len(t) :
                     t[i] = sep /\ \A j \in 1..(i - 1) : t[j] # sep
         IN  <<SubSeq(t, 1, k - 1)>> \o SplitAt(SubSeq(t, k + 1, Len(t)), sep)

RECURSIVE Universal(_)
\* text-mode reading and str.splitlines: "\r\n" and "\r" end a line as "\n"
Universal(t) ==
    IF t = <<>> THEN <<>>
    ELSE IF t[1] = CR /\ Len(t) > 1 /\ t[2] = LF THEN <<LF>> \o Universal(Tail(Tail(t)))
    ELSE IF t[1] = CR THEN <<LF>> \o Universal(Tail(t))
    ELSE <<t[1]>> \o Universal(Tail(t))

\* the lines of a text, without their line ends
Lines(t) ==
    LET pieces == SplitAt(Universal(t), LF)
    IN  IF pieces[Len(pieces)] = <<>> THEN SubSeq(pieces, 1, Len(pieces) - 1)
        ELSE pieces

\* ----------------------------------- convert_cookie_editor_json_to_netscape
Magic == "# Netscape HTTP Cookie File"
GeneratedBy == "# This file was generated by YT Audio Workbench from a JSON export."
AddedBy == "# Added header by YT Audio Workbench to satisfy validators."
HttpOnlyPrefix == "#HttpOnly_"
\* header = "# Netscape HTTP Cookie File\n# This file was generated ...\n"
ConvertHeader == <<Magic, LF, GeneratedBy, LF>>

\* the domain is written as given, whatever hostOnly says
DomainOf_AsGiven(c) == c.domain

\* domain = c.get("domain") or c.get("host") or ""; host_only ...
DomainOf(c) ==
    IF c.hostOnly = "true" THEN LStrip(c.domain, {"."})
    ELSE IF c.hostOnly = "false"
      THEN IF StartsWith(c.domain, ".") THEN c.domain ELSE <<".">> \o c.domain
    ELSE c.domain

\* the flag is inferred from the given domain even when hostOnly is present
IncludeSub_Inferred(c) == IF StartsWith(c.domain, ".") THEN "TRUE" ELSE "FALSE"

IncludeSub(c) ==
    IF c.hostOnly = "true" THEN "FALSE"
    ELSE IF c.hostOnly = "false" THEN "TRUE"
    ELSE IF StartsWith(c.domain, ".") THEN "TRUE" ELSE "FALSE"

\* .replace("\t", "%09").replace("\n", "%0A").replace("\r", "%0D")
Escape(t) == Replace(Replace(Replace(t, TAB, "%09"), LF, "%0A"), CR, "%0D")

\* domain_field = ("#HttpOnly_" + domain) if c.get("httpOnly") else domain
DomainField(c) == IF c.httpOnly THEN <<HttpOnlyPrefix>> \o DomainOf(c) ELSE DomainOf(c)

\* path = c.get("path") or "/"; https; exp = int(float(exp)); name; value
CookieFields(c) ==
    << DomainField(c),
       <<IncludeSub(c)>>,
       IF c.path = <<>> THEN <<"/">> ELSE c.path,
       <<IF c.secure THEN "TRUE" ELSE "FALSE">>,
       <<"0">>,
       Escape(c.name),
       Escape(c.value) >>

\* "\t".join([domain_field, include_sub, path, https, str(exp), name, value])
CookieLine(c) == JoinWith(CookieFields(c), TAB)

\* json.loads raised, or a record is not an object (c.get raises
\* AttributeError): the except branch is taken and nothing is written
ConvertRaises(data) ==
    \/ data.kind = "invalid"
    \/ \E i \in 1..Len(data.records) : ~data.records[i].obj

\* header + "\n".join(lines) + "\n"
ConvertText(data) ==
    ConvertHeader
      \o JoinWith([i \in 1..Len(data.records) |-> CookieLine(data.records[i])], LF)
      \o <<LF>>

\* ---------------------------------------------- MozillaCookieJar.load
HashStart == {Magic, GeneratedBy, AddedBy, HttpOnlyPrefix, "#", "$"}

\* one line of the file, after the magic line: "skip", "cookie" or "error"
LoadLine(line0) ==
    LET line == IF StartsWith(line0, HttpOnlyPrefix) THEN Tail(line0) ELSE line0
        f == SplitAt(line, TAB)
    IN  IF Strip(line) = <<>> \/ Strip(line)[1] \in HashStart THEN "skip"
        ELSE IF Len(f) # 7 THEN "error"
        ELSE IF (f[2] = <<"TRUE">>) # StartsWith(f[1], ".") THEN "error"
        ELSE IF f[5] \notin {<<>>, <<"0">>} THEN "error"
        ELSE "cookie"

\* jar.load(path, ignore_discard=True, ignore_expires=True) does not raise
Loads(t) ==
    /\ t # NoFile
    /\ Lines(t) # <<>>
    /\ StartsWith(Lines(t)[1], Magic)
    /\ \A i \in 2..Len(Lines(t)) : LoadLine(Lines(t)[i]) # "error"

\* ---------------------------------------------------------- cookie inputs
\* records of a Cookie-Editor export: obj = FALSE is a JSON value that is not
\* an object; an absent or empty text field is <<>>
HostOnlyValues == {"absent", "true", "false"}
DomainTexts == {<<"a">>, <<".", "a">>}
FieldTexts ==
    { [path |-> <<>>, name |-> <<"n">>, value |-> <<>>],
      [path |-> <<"/">>, name |-> <<"n", TAB>>, value |-> <<"v", LF, CR>>] }
Object(d, h, ho, p, n, v) ==
    [obj |-> TRUE, domain |-> d, hostOnly |-> h, httpOnly |-> ho, secure |-> FALSE,
     path |-> p, name |-> n, value |-> v]
NotAnObject ==
    [obj |-> FALSE, domain |-> <<>>, hostOnly |-> "absent", httpOnly |-> FALSE,
     secure |-> FALSE, path |-> <<>>, name |-> <<>>, value |-> <<>>]
NoDomain == Object(<<>>, "absent", FALSE, <<"/">>, <<"n">>, <<"v">>)
NewlineInPath == Object(<<"a">>, "absent", FALSE, <<"/", LF, "x">>, <<"n">>, <<"v">>)
CookieRecords ==
    {NotAnObject, NoDomain, NewlineInPath} \cup
    { c \in { Object(d, h, ho, f.path, f.name, f.value) :
                 d \in DomainTexts, h \in HostOnlyValues, ho \in BOOLEAN,
                 f \in FieldTexts } :
         c.hostOnly = "absent" \/ c.value = <<>> }
Batches == UNION {[1..n -> CookieRecords] : n \in 0..MaxRecords}
\* json.loads: an array, an object with a "cookies" array, or not JSON at all
CookieData ==
    {[kind |-> k, records |-> b] : k \in {"array", "wrapped"}, b \in Batches}
      \cup {[kind |-> "invalid", records |-> <<>>]}

CookieFiles == {"", "cookies.json", "user.txt"}
Browsers == {"", "None", "firefox"}
\* Path.suffix.lower()
SuffixLower(file) ==
    CASE file = "cookies.json" -> ".json"
      [] file = "user.txt" -> ".txt"
      [] OTHER -> ""
\* str.lower()
Lower(b) == IF b = "None" THEN "none" ELSE b

\* a cookies.txt the user has, for validate_netscape_cookiefile
PlainLine ==
    JoinWith(<< <<"a">>, <<"FALSE">>, <<"/">>, <<"FALSE">>, <<"0">>, <<"n">>, <<"v">> >>, TAB)
UserTexts ==
    { <<Magic, LF>> \o PlainLine \o <<LF>>,
      PlainLine \o <<LF>>,
      PlainLine,
      <<"x", LF>>,
      <<Magic, LF, "x", LF>>,
      <<LF, Magic, LF>> \o PlainLine \o <<LF>>,
      <<>> }

\* ---------------------------------------------------------- prepare_cookies
\* prepare_cookies(cookies_file, cookies_browser, working_dir, log), with
\* convert_cookie_editor_json_to_netscape(cookies_file, out, log) inside
PrepareCookies ==
    /\ ckRet = "<not called>"
    /\ ckArg = ""
    /\ \E file \in CookieFiles, browser \in Browsers, data \in CookieData :
          /\ file = "cookies.json" => (ckfs["user.txt"] = NoFile /\ browser # "None")
          /\ file # "cookies.json" => data.kind = "invalid"
          /\ ckFile' = file
          /\ ckBrowser' = browser
          /\ IF file # "" /\ SuffixLower(file) = ".json"
               THEN /\ ckData' = data
                    /\ IF ConvertRaises(data)
                         THEN /\ ckLog' = <<[msg |-> "Cookie JSON convert failed", name |-> ""]>>
                              /\ UNCHANGED ckfs
                         ELSE /\ ckfs' = [ckfs EXCEPT !["cookies.txt"] = ConvertText(data)]
                              /\ ckLog' = <<[msg |-> "Converted JSON cookies", name |-> "cookies.txt"]>>
                    /\ ckRet' = "cookies.txt"
               ELSE /\ ckData' = NoData
                    /\ UNCHANGED ckfs
                    /\ IF browser # "" /\ Lower(browser) # "none"
                         THEN /\ ckLog' = <<[msg |-> "using cookies from browser", name |-> browser]>>
                              /\ ckRet' = "None"
                         ELSE /\ ckLog' = <<>>
                              /\ ckRet' = IF file = "" THEN "None" ELSE file
    /\ UNCHANGED <<notCookie, ckArg, ckPre, ckVal>>

\* the user's own cookies.txt is put in the working directory, before anything
\* is validated
UserFile ==
    /\ ckArg = ""
    /\ ckfs["user.txt"] = NoFile
    /\ ckfs["cookies.txt"] = NoFile
    /\ ckFile # "cookies.json"
    /\ \E t \in UserTexts : ckfs' = [ckfs EXCEPT !["user.txt"] = t]
    /\ UNCHANGED <<notCookie, ckFile, ckData, ckBrowser, ckRet, ckLog, ckArg, ckPre, ckVal>>

\* --------------------------------------------- validate_netscape_cookiefile
\* Path(path).with_suffix(path.suffix + ".withheader")
WithHeader(path) == path \o ".withheader"

\* first_nonempty: the first line of txt.splitlines() with line.strip() != ""
FirstNonEmpty(t) ==
    LET ls == Lines(t)
        ne == {i \in 1..Len(ls) : Strip(ls[i]) # <<>>}
    IN  IF ne = {} THEN <<>>
        ELSE ls[CHOOSE i \in ne : \A j \in ne : i <= j]

\* header + (txt if txt.endswith("\n") else txt + "\n")
Repaired(t) == <<Magic, LF, AddedBy, LF>> \o (IF EndsWith(t, LF) THEN t ELSE t \o <<LF>>)

\* the repair is written over the file itself
RepairTarget_InPlace(path) == path

\* where validate writes the repaired copy of the file at path
RepairTarget(path) == WithHeader(path)

\* validate_netscape_cookiefile(path, log)
Validate(path) ==
    /\ ckArg' = path
    /\ ckPre' = ckfs
    /\ IF Loads(ckfs[path])
         THEN /\ ckVal' = [ok |-> TRUE, from |-> path, repaired |-> FALSE]
              /\ ckLog' = <<>>
              /\ UNCHANGED ckfs
         ELSE IF ckfs[path] # NoFile /\ ~StartsWith(FirstNonEmpty(ckfs[path]), Magic)
           THEN /\ ckfs' = [ckfs EXCEPT ![RepairTarget(path)] = Repaired(ckfs[path])]
                /\ IF Loads(Repaired(ckfs[path]))
                     THEN /\ ckLog' = <<[msg |-> "Cookie file missing header -> repaired",
                                         name |-> WithHeader(path)]>>
                          /\ ckVal' = [ok |-> TRUE, from |-> WithHeader(path),
                                       repaired |-> TRUE]
                     ELSE /\ ckLog' = <<>>
                          /\ ckVal' = [ok |-> FALSE, from |-> "", repaired |-> FALSE]
           ELSE /\ ckLog' = <<>>
                /\ ckVal' = [ok |-> FALSE, from |-> "", repaired |-> FALSE]
                /\ UNCHANGED ckfs
    /\ UNCHANGED <<notCookie, ckFile, ckData, ckBrowser, ckRet>>

\* the caller validates the path prepare_cookies returned, or the user's file
ValidateCall ==
    \E path \in {"cookies.txt", "user.txt"} :
       /\ path = ckRet \/ ckfs[path] # NoFile
       /\ Validate(path)

NextCookies ==
    \/ PrepareCookies
    \/ UserFile
    \/ ValidateCall

SpecCookies == Init /\ [][NextCookies]_vars

\* ------------------------------------------------------------ file names
\* a file is named by its stem (a text); every file has the suffix ".mp3"
Sep == <<" ", "-", " ">>
Digits == {"1", "2", "3"}
ControlChars == {TAB, LF, CR}
\* [<>:"/\\|?*], [&;$'\"()!] and [\[\]{}#%,] of _sanitize_filename_component
Reserved == {"<", ">", ":", "/", "|", "?", "*", "&", ";", "$", "(", ")", "!",
             "[", "]", "{", "}", "#", "%", ","}

\* the first position where sub starts in t, 0 if nowhere
Find(t, sub) ==
    LET at == {k \in 1..(Len(t) - Len(sub) + 1) : SubSeq(t, k, k + Len(sub) - 1) = sub}
    IN  IF at = {} THEN 0 ELSE CHOOSE k \in at : \A j \in at : k <= j

RECURSIVE SplitStr(_, _)
\* str.split(sub)
SplitStr(t, sub) ==
    LET k == Find(t, sub)
    IN  IF k = 0 THEN <<t>>
        ELSE <<SubSeq(t, 1, k - 1)>> \o SplitStr(SubSeq(t, k + Len(sub), Len(t)), sub)

RECURSIVE JoinStr(_, _)
\* sub.join(parts)
JoinStr(parts, sub) ==
    IF parts = <<>> THEN <<>>
    ELSE IF Len(parts) = 1 THEN parts[1]
    ELSE parts[1] \o sub \o JoinStr(Tail(parts), sub)

\* str.isdigit()
IsDigit(t) == t # <<>> /\ \A i \in 1..Len(t) : t[i] \in Digits

\* str.lower(), for re.IGNORECASE
LowerText(t) == [i \in 1..Len(t) |-> IF t[i] = "A" THEN "a" ELSE t[i]]

\* "".join(ch for ch in name if ch >= " " and ch != "\x7f")
DropControl(t) == SelectSeq(t, LAMBDA ch : ch \notin ControlChars)

RECURSIVE Collapse(_, _, _)
\* re.sub(class{least,}, " ", t): every longest run of at least `least`
\* characters of the class becomes one space
Collapse(t, class, least) ==
    IF t = <<>> THEN <<>>
    ELSE IF t[1] \notin class THEN <<t[1]>> \o Collapse(Tail(t), class, least)
    ELSE LET run == CHOOSE n \in 1..Len(t) :
                       /\ \A j \in 1..n : t[j] \in class
                       /\ n = Len(t) \/ t[n + 1] \notin class
             rest == Collapse(SubSeq(t, run + 1, Len(t)), class, least)
         IN  IF run >= least THEN <<" ">> \o rest ELSE SubSeq(t, 1, run) \o rest

\* ------------------------------------------ _sanitize_filename_component
_sanitize_filename_component(name) ==
    LET a == DropControl(name)
        b == [i \in 1..Len(a) |-> IF a[i] \in Reserved THEN "-" ELSE a[i]]
        c == Collapse(b, {" "}, 1)
        d == Collapse(c, {"-", " "}, 2)
        e == RStrip(LStrip(d, {" ", ".", "-", "_"}), {" ", ".", "-", "_"})
    IN  IF e = <<>> THEN <<"untitled">> ELSE e

\* ----------------------------------------------- _parse_artist_title_trackno
\* None and the empty string are both <<>>
_parse_artist_title_trackno(stem) ==
    LET parts == SplitStr(stem, Sep)
        num == IsDigit(parts[1])
        i == IF num THEN 1 ELSE 0
        trackno == IF num THEN parts[1] ELSE <<>>
    IN  IF Len(parts) - i >= 2
          THEN [artist |-> Strip(parts[i + 1]),
                title |-> Strip(JoinStr(SubSeq(parts, i + 2, Len(parts)), Sep)),
                trackno |-> trackno]
          ELSE [artist |-> <<>>, title |-> stem, trackno |-> trackno]

\* ----------------------------------------------- _dedup_artist_in_filenames
\* pat.match(p.stem) for
\* ^(?:(?P<num>\d+)\s*-\s*)?(?P<a>[^-]+?)\s-\s(?P=a)\s-\s(?P<rest>.+)$
\* with re.IGNORECASE, on stems whose only hyphens are those of " - "
DedupMatch(stem) ==
    LET parts == SplitStr(stem, Sep)
        n == Len(parts)
        Try(k) == /\ n >= k + 2
                  /\ parts[k] # <<>>
                  /\ LowerText(parts[k]) = LowerText(parts[k + 1])
                  /\ JoinStr(SubSeq(parts, k + 2, n), Sep) # <<>>
        Hit(k, num) == [matched |-> TRUE, num |-> num, a |-> parts[k],
                        rest |-> JoinStr(SubSeq(parts, k + 2, n), Sep)]
    IN  IF IsDigit(parts[1]) /\ Try(2) THEN Hit(2, parts[1])
        ELSE IF Try(1) THEN Hit(1, <<>>)
        ELSE [matched |-> FALSE, num |-> <<>>, a |-> <<>>, rest |-> <<>>]

\* new_stem = f"{prefix}{m.group('a').strip()} - {m.group('rest').strip()}"
DedupStem(m) ==
    (IF m.num # <<>> THEN m.num \o Sep ELSE <<>>) \o Strip(m.a) \o Sep \o Strip(m.rest)

\* ------------------------------------------------------------ stage inputs
FileStems ==
    { <<"A">> \o Sep \o <<"B">>,
      <<"1">> \o Sep \o <<"A">> \o Sep \o <<"B">>,
      <<"A">> \o Sep \o <<"A">> \o Sep \o <<"B">>,
      <<"1">> \o Sep \o <<"a">> \o Sep \o <<"A">> \o Sep \o <<"B">>,
      <<"1">> \o Sep \o <<"B">>,
      <<"A", "?">>,
      <<"A", "B">> }
\* the files handed to a stage: files of one directory, a file possibly twice
StageLists == UNION {[1..n -> FileStems] : n \in 0..MaxFiles}
\* other files that may already be in the directory
OtherFiles ==
    {<<"A", " ", "B">>, <<"A", " ", "B", "_", "1">>, <<"A", " ", "B", "_", "2">>}
Albums == {<<>>, <<"L">>}
\* the frames a file has before tagging: none, or frames of an earlier tagging
NoTags == [TIT2 |-> <<>>, TPE1 |-> <<>>, TALB |-> <<>>, TRCK |-> <<>>, TCON |-> <<>>]
OldTags == [TIT2 |-> <<"t">>, TPE1 |-> <<"p">>, TALB |-> <<"l">>, TRCK |-> <<"3">>,
            TCON |-> <<"g">>]
Line(msg, name) == [msg |-> msg, name |-> name]

\* a stage is called with a list of files
StageCall ==
    /\ sgpc = "idle"
    /\ sgOp' \in {"sanitize", "dedup", "tag"}
    /\ sgFiles' \in StageLists
    /\ \E others \in SUBSET OtherFiles : sgDir' = Range(sgFiles') \cup others
    /\ sgAlbum' \in (IF sgOp' = "tag" THEN Albums ELSE {<<>>})
    /\ sgTags' \in (IF sgOp' = "tag" THEN [1..Len(sgFiles') -> {NoTags, OldTags}]
                    ELSE {[i \in 1..Len(sgFiles') |-> NoTags]})
    /\ sgTags0' = sgTags'
    /\ sgI' = 1
    /\ sgOut' = <<>>
    /\ sgSeen' = {}
    /\ sgLog' = <<>>
    /\ sgErr' = {}
    /\ sgProbes' = 0
    /\ sgpc' = "loop"
    /\ UNCHANGED notStage

\* ------------------------------------------------------ _sanitize_and_rename
DigitOf == <<"1", "2", "3", "4", "5", "6", "7", "8", "9">>
\* f"{san}_{i}"
Numbered(stem, i) == stem \o <<"_", DigitOf[i]>>

RECURSIVE FirstCandidate(_, _, _, _)
\* cand = san; i = 1; while cand.exists() and cand != p: cand = san_i; i += 1
FirstCandidate(san, p, dir, i) ==
    LET cand == IF i = 0 THEN san ELSE Numbered(san, i)
    IN  IF cand \in dir /\ cand # p THEN FirstCandidate(san, p, dir, i + 1) ELSE cand

RECURSIVE FirstAlt(_, _, _)
\* j = 1; alt = cand_j; while alt.exists(): j += 1; alt = cand_j
FirstAlt(cand, dir, j) ==
    IF Numbered(cand, j) \in dir THEN FirstAlt(cand, dir, j + 1) ELSE Numbered(cand, j)

RECURSIVE CandidateProbes(_, _, _, _)
\* how many times `cand.exists()` is evaluated by that loop
CandidateProbes(san, p, dir, i) ==
    LET cand == IF i = 0 THEN san ELSE Numbered(san, i)
    IN  IF cand \in dir /\ cand # p THEN 1 + CandidateProbes(san, p, dir, i + 1) ELSE 1

RECURSIVE AltProbes(_, _, _)
\* how many times `alt.exists()` is evaluated by that loop
AltProbes(cand, dir, j) ==
    IF Numbered(cand, j) \in dir THEN 1 + AltProbes(cand, dir, j + 1) ELSE 1

\* one turn of `for p in files:` in _sanitize_and_rename; renamed and adjusted
\* say whether p.rename(cand) and cand.rename(alt) succeed (a rename of a file
\* that is no longer there never does)
SanitizeTurn(renamed, adjusted) ==
    LET p == sgFiles[sgI]
        first == FirstCandidate(_sanitize_filename_component(p), p, sgDir, 0)
        try1 == first # p
        cand1 == IF try1 /\ ~renamed THEN p ELSE first
        dir1 == IF try1 /\ renamed THEN (sgDir \ {p}) \cup {first} ELSE sgDir
        log1 == IF ~try1 THEN sgLog
                ELSE IF renamed THEN Append(sgLog, Line("Renamed (sanitized)", p))
                ELSE Append(sgLog, Line("Sanitize/rename failed", p))
        try2 == cand1 \in sgSeen
        alt == FirstAlt(cand1, dir1, 1)
        cand2 == IF try2 /\ adjusted THEN alt ELSE cand1
    IN  /\ try1 /\ renamed => p \in sgDir
        /\ try2 /\ adjusted => cand1 \in dir1
        /\ sgDir' = IF try2 /\ adjusted THEN (dir1 \ {cand1}) \cup {alt} ELSE dir1
        /\ sgLog' = IF try2 /\ adjusted THEN Append(log1, Line("Adjusted duplicate", cand1))
                    ELSE log1
        /\ sgErr' = IF (try1 /\ ~renamed) \/ (try2 /\ ~adjusted) THEN sgErr \cup {sgI}
                    ELSE sgErr
        /\ sgProbes' = CandidateProbes(_sanitize_filename_component(p), p, sgDir, 0)
                        + (IF try2 THEN AltProbes(cand1, dir1, 1) ELSE 0)
        /\ sgSeen' = sgSeen \cup {cand2}
        /\ sgOut' = Append(sgOut, cand2)

SanitizeFile ==
    /\ sgOp = "sanitize" /\ sgpc = "loop"
    /\ sgI <= Len(sgFiles)
    /\ \E renamed, adjusted \in BOOLEAN : SanitizeTurn(renamed, adjusted)
    /\ sgI' = sgI + 1
    /\ UNCHANGED <<notStage, sgOp, sgpc, sgFiles, sgAlbum, sgTags, sgTags0>>

\* ----------------------------------------------- _dedup_artist_in_filenames
\* one turn of `for p in files:`; replaced says whether os.replace succeeds
DedupTurn(replaced) ==
    LET p == sgFiles[sgI]
        m == DedupMatch(p)
        new == DedupStem(m)
        try == m.matched /\ new \notin sgDir
    IN  IF try /\ replaced
          THEN /\ p \in sgDir
               /\ sgDir' = (sgDir \ {p}) \cup {new}
               /\ sgLog' = Append(sgLog, Line("Renamed (dedup artist)", p))
               /\ sgOut' = Append(sgOut, new)
               /\ UNCHANGED sgErr
          ELSE /\ sgOut' = Append(sgOut, p)
               /\ sgErr' = IF try THEN sgErr \cup {sgI} ELSE sgErr
               /\ UNCHANGED <<sgDir, sgLog>>

DedupFile ==
    /\ sgOp = "dedup" /\ sgpc = "loop"
    /\ sgI <= Len(sgFiles)
    /\ \E replaced \in BOOLEAN : DedupTurn(replaced)
    /\ sgI' = sgI + 1
    /\ UNCHANGED <<notStage, sgOp, sgpc, sgFiles, sgSeen, sgAlbum, sgTags, sgTags0, sgProbes>>

\* --------------------------------------------------- write_id3_tags_mutagen
\* if not ensure_mutagen_installed(log): log(...); return
TagNoMutagen ==
    /\ sgOp = "tag" /\ sgpc = "loop"
    /\ sgI = 1
    /\ sgLog = <<>>
    /\ sgLog' = <<Line("mutagen not installed; skipping ID3 tagging.", <<>>)>>
    /\ sgpc' = "done"
    /\ UNCHANGED <<notStage, sgOp, sgFiles, sgI, sgOut, sgSeen, sgDir, sgAlbum, sgTags,
                   sgTags0, sgErr, sgProbes>>

\* what id3.save(p) leaves in the file: delall + add for every value that is
\* not empty, the other frames as they were loaded
Tagged(id3, stem, album) ==
    LET r == _parse_artist_title_trackno(stem)
    IN  [TIT2 |-> IF r.title # <<>> THEN r.title ELSE id3.TIT2,
         TPE1 |-> IF r.artist # <<>> THEN r.artist ELSE id3.TPE1,
         TALB |-> IF album # <<>> THEN album ELSE id3.TALB,
         TRCK |-> IF r.trackno # <<>> THEN r.trackno ELSE id3.TRCK,
         TCON |-> id3.TCON]

\* one turn of `for p in files:` in write_id3_tags_mutagen; saved says whether
\* loading and saving the frames succeed
TagFile ==
    /\ sgOp = "tag" /\ sgpc = "loop"
    /\ sgI <= Len(sgFiles)
    /\ \E saved \in BOOLEAN :
          IF saved
            THEN /\ sgTags' = [sgTags EXCEPT
                                 ![sgI] = Tagged(sgTags[sgI], sgFiles[sgI], sgAlbum)]
                 /\ sgLog' = Append(sgLog, Line("Tagged", sgFiles[sgI]))
                 /\ UNCHANGED sgErr
            ELSE /\ sgLog' = Append(sgLog, Line("Failed to tag", sgFiles[sgI]))
                 /\ sgErr' = sgErr \cup {sgI}
                 /\ UNCHANGED sgTags
    /\ sgI' = sgI + 1
    /\ UNCHANGED <<notStage, sgOp, sgpc, sgFiles, sgOut, sgSeen, sgDir, sgAlbum, sgTags0,
                   sgProbes>>

\* the loop is over: return out / return
StageReturn ==
    /\ sgpc = "loop"
    /\ sgI > Len(sgFiles)
    /\ sgpc' = "done"
    /\ UNCHANGED <<notStage, sgOp, sgFiles, sgI, sgOut, sgSeen, sgDir, sgAlbum, sgTags,
                   sgTags0, sgLog, sgErr, sgProbes>>

NextStages ==
    \/ StageCall
    \/ SanitizeFile
    \/ DedupFile
    \/ TagNoMutagen
    \/ TagFile
    \/ StageReturn

SpecStages == Init /\ [][NextStages]_vars

\* ------------------------------------------------------ embed_id3_chapters
\* int(round(x * 1000)) for x seconds given in 1/150 s: 20/3 ms each, never
\* half-way between two integers
MsOf(h) == (40 * h + 3) \div 6

\* embed_id3_chapters(joined_mp3, parts, log), on the parts the CUE sheet was
\* written for; from mutagen.id3 import ...: except -> log, return
EmbedCall ==
    /\ cuepc = "done"
    /\ chpc = "idle"
    /\ chParts' = cueParts
    /\ chChaps' = <<>>
    /\ \E ok \in BOOLEAN :
          IF ok THEN chpc' = "chapters" /\ chLog' = <<>>
          ELSE chpc' = "done" /\ chLog' = <<"mutagen not available for chapters">>
    /\ UNCHANGED <<notOff, plpc, plParts, plSegs>>

\* start_ms = 0; for idx, p in enumerate(parts, start=1):
\*     dur = _ffprobe_duration_seconds(p, log)
\*     end_ms = int(round((start_ms / 1000.0 + dur) * 1000))
\*     CHAP(start_time=start_ms, end_time=end_ms); start_ms = end_ms
ChapterTrack ==
    /\ chpc = "chapters"
    /\ Len(chChaps) < Len(chParts)
    /\ LET p == chParts[Len(chChaps) + 1]
           r == _ffprobe_duration_seconds([out |-> p.out, rc |-> p.rc])
           start_ms == IF chChaps = <<>> THEN 0 ELSE chChaps[Len(chChaps)].end
           end_ms == start_ms + MsOf(r.d)
       IN  /\ chChaps' = Append(chChaps, [start |-> start_ms, end |-> end_ms])
           /\ chLog' = IF r.logged THEN Append(chLog, "ffprobe duration failed") ELSE chLog
    /\ UNCHANGED <<notOff, chpc, chParts, plpc, plParts, plSegs>>

\* tags.add(toc); tags.save(...); log("Embedded ID3 chapters.")
\* except Exception as e: log(f"Chapter embed failed: {e}")
EmbedSave ==
    /\ chpc = "chapters"
    /\ Len(chChaps) = Len(chParts)
    /\ \E ok \in BOOLEAN :
          chLog' = Append(chLog, IF ok THEN "Embedded ID3 chapters." ELSE "Chapter embed failed")
    /\ chpc' = "done"
    /\ UNCHANGED <<notOff, chParts, chChaps, plpc, plParts, plSegs>>

\* ----------------------------------------------- write_vlc_segment_playlist
\* max(dur, 0.1): 0.1 s is 15 units of 1/150 s
MinSegment == 15
\* int(round(x)) for x seconds given in 1/150 s; round() rounds a half to the
\* even neighbour
SecondsOf(h) ==
    LET q == h \div 150
        r == h % 150
    IN  IF r < 75 THEN q ELSE IF r > 75 THEN q + 1 ELSE IF q % 2 = 0 THEN q ELSE q + 1

\* write_vlc_segment_playlist(joined_mp3, parts, outdir, log), on the parts the
\* chapters were embedded for: lines = ["#EXTM3U"]; start = 0.0
PlaylistCall ==
    /\ chpc = "done"
    /\ plpc = "idle"
    /\ plParts' = chParts
    /\ plSegs' = <<>>
    /\ plpc' = "segments"
    /\ UNCHANGED <<notOff, chpc, chParts, chChaps, chLog>>

\* for p in parts: dur = _ffprobe_duration_seconds(p, log)
\*     end = start + max(dur, 0.1)
\*     #EXTVLCOPT:start-time={int(round(start))}, stop-time={int(round(end))}
\*     start = end
SegmentTrack ==
    /\ plpc = "segments"
    /\ Len(plSegs) < Len(plParts)
    /\ LET p == plParts[Len(plSegs) + 1]
           r == _ffprobe_duration_seconds([out |-> p.out, rc |-> p.rc])
           start == IF plSegs = <<>> THEN 0 ELSE plSegs[Len(plSegs)].end
           end == start + Max(r.d, MinSegment)
       IN  plSegs' = Append(plSegs, [start |-> start, end |-> end,
                                     startTime |-> SecondsOf(start),
                                     stopTime |-> SecondsOf(end)])
    /\ UNCHANGED <<notOff, chpc, chParts, chChaps, chLog, plpc, plParts>>

\* out.write_text(...); log(f"Wrote VLC segment playlist: {out.name}")
PlaylistWrite ==
    /\ plpc = "segments"
    /\ Len(plSegs) = Len(plParts)
    /\ plpc' = "done"
    /\ UNCHANGED <<notOff, chpc, chParts, chChaps, chLog, plParts, plSegs>>

\* the CUE sheet of one track list
CueCallOnce == cuepc = "idle" /\ CueCall

\* CUE sheet, chapters and segment playlist of one track list
NextOffsets ==
    \/ CueCallOnce
    \/ CueImport
    \/ CueProbe
    \/ CueHeader
    \/ CueTrack
    \/ CueWrite
    \/ EmbedCall
    \/ ChapterTrack
    \/ EmbedSave
    \/ PlaylistCall
    \/ SegmentTrack
    \/ PlaylistWrite

SpecOffsets == Init /\ [][NextOffsets]_vars

\* ------------------------------------------------------ resolve_tool_path
Exes == {"ffmpeg", "mp3gain", "MP3Gain"}
\* exe.lower()
LowerExe(exe) == IF exe = "MP3Gain" THEN "mp3gain" ELSE exe
Platforms ==
    { [name |-> "nt", platform |-> "win32"],
      [name |-> "posix", platform |-> "darwin"],
      [name |-> "posix", platform |-> "linux"] }
EnvNames == {"LOCALAPPDATA", "USERPROFILE", "ProgramFiles", "ProgramFiles(x86)"}
\* a location: the directory and the file name looked for in it
At(dir, file) == <<dir, file>>
\* f"{exe}.exe"
DotExe(exe) == exe \o ".exe"

\* if os.name == "nt": candidates = [...], in the order they are appended
WindowsCandidates(exe, env) ==
    (IF "LOCALAPPDATA" \in env
       THEN <<At("%LOCALAPPDATA%/Microsoft/WinGet/Links", DotExe(exe))>> ELSE <<>>)
    \o <<At("%ProgramData%/chocolatey/bin", DotExe(exe))>>
    \o (IF "USERPROFILE" \in env
          THEN <<At("%USERPROFILE%/scoop/shims", DotExe(exe))>> ELSE <<>>)
    \o (IF LowerExe(exe) = "mp3gain" /\ "ProgramFiles(x86)" \in env
          THEN <<At("%ProgramFiles(x86)%/MP3Gain", "mp3gain.exe")>> ELSE <<>>)
    \o (IF LowerExe(exe) = "mp3gain" /\ "ProgramFiles" \in env
          THEN <<At("%ProgramFiles%/MP3Gain", "mp3gain.exe")>> ELSE <<>>)
    \o (IF "ProgramFiles" \in env
          THEN <<At("%ProgramFiles%/FFmpeg/bin", DotExe(exe))>> ELSE <<>>)
    \o (IF "ProgramFiles(x86)" \in env
          THEN <<At("%ProgramFiles(x86)%/FFmpeg/bin", DotExe(exe))>> ELSE <<>>)
\* if sys.platform == "darwin": for pth in [...]
MacCandidates(exe) == <<At("/opt/homebrew/bin", exe), At("/usr/local/bin", exe)>>
\* for pth in ["/usr/bin", "/usr/local/bin"]
LinuxCandidates(exe) == <<At("/usr/bin", exe), At("/usr/local/bin", exe)>>
\* the locations steps 2 to 4 look at, in order
Candidates(exe, os, env) ==
    (IF os.name = "nt" THEN WindowsCandidates(exe, env) ELSE <<>>)
    \o (IF os.platform = "darwin" THEN MacCandidates(exe) ELSE <<>>)
    \o LinuxCandidates(exe)

\* for c in candidates: if os.path.exists(c): return c -- looks at the head only
FirstExisting_HeadOnly(cands, exists) ==
    IF cands = <<>> THEN 0
    ELSE IF cands[1] \in exists THEN 1 ELSE 0

\* for c in candidates: if os.path.exists(c): return c
\* the position of the candidate returned, 0 when the loops end without one
FirstExisting(cands, exists) ==
    IF \E k \in 1..Len(cands) : cands[k] \in exists
      THEN CHOOSE k \in 1..Len(cands) :
              /\ cands[k] \in exists
              /\ \A j \in 1..(k - 1) : cands[j] \notin exists
      ELSE 0

\* every location a platform could look at for exe
AllLocations(exe) ==
    UNION {Range(Candidates(exe, os, EnvNames)) : os \in Platforms}
WhichResults(exe) == {"", "/on/path/" \o exe}

\* resolve_tool_path(exe) or have(exe) is called
ResolveCall ==
    /\ rspc = "idle"
    /\ rsVia' \in {"resolve", "have"}
    /\ rsExe' \in Exes
    /\ rsOs' \in Platforms
    /\ rsEnv' \in SUBSET EnvNames
    /\ rsWhich' \in WhichResults(rsExe')
    /\ rsExists' \in {{}} \cup {{l} : l \in AllLocations(rsExe')}
    /\ rsProbed' = <<>>
    /\ rsRet' = "<not called>"
    /\ rsHave' = FALSE
    /\ rspc' = "which"
    /\ UNCHANGED notResolve

\* return resolve_tool_path(exe) is not None
have(ret) == ret # "None"

\* control goes back to the caller with ret
ResolveReturns(ret) ==
    /\ rsRet' = ret
    /\ rsHave' = IF rsVia = "have" THEN have(ret) ELSE rsHave
    /\ rspc' = "done"

\* p = shutil.which(exe); if p: return p
ResolveWhich ==
    /\ rspc = "which"
    /\ IF rsWhich # ""
         THEN ResolveReturns(rsWhich)
         ELSE rspc' = "dirs" /\ UNCHANGED <<rsRet, rsHave>>
    /\ UNCHANGED <<notResolve, rsVia, rsExe, rsOs, rsEnv, rsWhich, rsExists, rsProbed>>

\* steps 2 to 4: the first candidate that exists, or None
ResolveDirs ==
    /\ rspc = "dirs"
    /\ LET cands == Candidates(rsExe, rsOs, rsEnv)
           k == FirstExisting(cands, rsExists)
       IN  /\ rsProbed' = IF k = 0 THEN cands ELSE SubSeq(cands, 1, k)
           /\ ResolveReturns(IF k = 0 THEN "None" ELSE cands[k][1] \o "/" \o cands[k][2])
    /\ UNCHANGED <<notResolve, rsVia, rsExe, rsOs, rsEnv, rsWhich, rsExists>>

NextResolve ==
    \/ ResolveCall
    \/ ResolveWhich
    \/ ResolveDirs

SpecResolve == Init /\ [][NextResolve]_vars

\* ======================================================================
\* Process supervisor: registry and termination
\* ======================================================================
Alive == {p \in Pids : life[p] = "alive"}
\* a call of _run_capture / run_quiet has just handed control back
CallEnded == wpc = "idle" /\ wres.pid # 0

\* C1: when a call of _run_capture / run_quiet has handed control back to its
\* caller, by returning or by raising, on any path (exit 0, exit non-zero,
\* timeout, exception while communicating), the child it spawned is no longer
\* in the process registry.
C1_DeregisteredOnEveryPath == CallEnded => wres.pid \notin registry

\* a call that ended by an exception raised while communicating, its child
\* still running
C1_Witness ==
    /\ CallEnded
    /\ wres.kind = "raised"
    /\ life[wres.pid] = "alive"

\* C2: whenever no supervisor operation is in progress, the registered
\* processes are exactly the spawned children that are currently alive.
C2_RegistryIsTheLiveChildren ==
    (wpc = "idle" /\ cpc["ui"] \in {"idle", "returned"}) => registry = Alive

\* C3: in the state right after terminate_all_procs returns, the registry is
\* empty, whatever the worker thread did meanwhile.
C3_RegistryEmptyAfterCancel ==
    [][(cpc["ui"] # "returned" /\ cpc'["ui"] = "returned") => registry' = {}]_vars

\* the terminate_all_procs call in progress has finished its graceful loop
PastGraceful(c) == cpc[c] \in {"wait", "kill", "cleanup"}

\* C4 (as stated): every process tracked at the call is sent the graceful
\* signal before any is force-killed; only processes still alive are
\* force-killed; after the kill loop none of the tracked processes is alive.
C4_AsStated ==
    \A c \in Cancellers :
       /\ PastGraceful(c) => Range(procs[c]) \subseteq sigd[c]
       /\ kild[c] # {} => PastGraceful(c)
       /\ \A p \in kild[c] : returncode[p] = KillRc
       /\ cpc[c] = "cleanup" => Range(procs[c]) \cap Alive = {}

\* C4 (amended): every tracked process that is still running when the
\* graceful loop examines it is sent the graceful signal before any process
\* is force-killed (one that has already ended is skipped); only processes
\* still alive after the wait are force-killed; after the kill loop none of
\* the tracked processes is alive.
C4_GracefulThenKill ==
    \A c \in Cancellers :
       /\ PastGraceful(c) => \A p \in Range(procs[c]) : p \in sigd[c] \/ ~Running(p)
       /\ kild[c] # {} => PastGraceful(c)
       /\ \A p \in kild[c] : returncode[p] = KillRc
       /\ cpc[c] = "cleanup" => Range(procs[c]) \cap Alive = {}

\* two tracked processes, both signalled, one gone by itself, the other killed
C4_Witness ==
    /\ cpc["ui"] = "cleanup"
    /\ Cardinality(sigd["ui"]) = 2
    /\ Cardinality(kild["ui"]) = 1

\* C5: when the timeout of _run_capture / run_quiet expired, the child is no
\* longer alive once the call has returned.
C5_NoChildAliveAfterTimeout ==
    (CallEnded /\ wres.esc /\ wres.kind # "raised") => life[wres.pid] # "alive"

\* C6: terminate_all_procs never raises, and once a call has returned with
\* nothing registered since its snapshot the registry is empty, however many
\* calls ran before it or run beside it.
C6_CancelIdempotentNeverRaises ==
    \A c \in Cancellers :
       /\ cpc[c] # "raised"
       /\ (cpc[c] = "returned" /\ ~regSince[c]) => registry = {}

\* a repeated call of one thread returned while the other thread had a call
\* in progress on a child that ended by itself after being signalled
C6_Witness ==
    /\ cpc["ui"] = "returned"
    /\ again["ui"]
    /\ cpc["aux"] = "wait"
    /\ \E p \in sigd["aux"] : life[p] = "exited" /\ returncode[p] # KillRc


\* a call of _run_capture / run_quiet handed a result to its caller: a return
\* value or a CalledProcessError
Handed == CallEnded /\ wres.kind \in {"tuple", "triple", "raised_cpe"}

\* C21: a call of _run_capture / run_quiet whose timeout expired and whose
\* escalation signal reached the running child never returns exit code 0.
C21_TimeoutNeverReportedAsSuccess ==
    (CallEnded /\ wres.sig /\ wres.kind \in {"tuple", "triple"}) => wres.rc # 0

\* C23: the stderr that _run_capture / run_quiet hands to its caller, in the
\* return value or in the CalledProcessError, is the last min(12, n) of the n
\* lines the child wrote to stderr, in the order written.
C23_StderrIsLastTwelveLines ==
    Handed =>
        /\ Len(wres.err) = (IF Len(wres.all) <= 12 THEN Len(wres.all) ELSE 12)
        /\ \A k \in 1..Len(wres.err) :
              wres.err[k] = wres.all[Len(wres.all) - Len(wres.err) + k]

\* ======================================================================
\* Join engine
\* ======================================================================
JoinEnded == jpc = "done"
AllExitedZero == \A i \in 1..Len(jcalls) : jcalls[i].rc = 0

\* C9: for N >= 1 inputs, when every external invocation ends with exit code 0,
\* join makes exactly N + 2 invocations (one transcode per input in input order, then
\* the concatenation, then one encode) and returns <outdir>/<join_name>.mp3.
C9_JoinRunsNPlus2AndReturns ==
    (JoinEnded /\ AllExitedZero /\ Len(jfiles) > 0) =>
       /\ jres.kind = "returned"
       /\ jres.path = Joined(jname)
       /\ Len(jcalls) = Len(jfiles) + 2
       /\ \A i \in 1..Len(jfiles) :
             jcalls[i].step = "transcode" /\ jcalls[i].input = i
       /\ jcalls[Len(jfiles) + 1].step = "concat"
       /\ jcalls[Len(jfiles) + 2].step = "encode"

\* C10: a transcode that exits non-zero makes join fail naming that input,
\* with no invocation after it; and join fails at the transcode step only
\* when a transcode exited non-zero.
C10_TranscodeFailureIffNonZeroExit ==
    JoinEnded =>
       /\ \A k \in 1..Len(jcalls) :
             (jcalls[k].step = "transcode" /\ jcalls[k].rc # 0) =>
                /\ jres.kind = "raised"
                /\ jres.stage = "transcode"
                /\ jres.file = jcalls[k].input
                /\ k = Len(jcalls)
       /\ (jres.kind = "raised" /\ jres.stage = "transcode") =>
             jcalls[Len(jcalls)].rc # 0

\* C11: whenever join has failed after the per-file transcodes (at the
\* concatenation or at the final encode), no file exists at the final output
\* path.
C11_NoFileAtFinalPathAfterFailure ==
    (JoinEnded /\ jres.kind = "raised" /\ jres.stage \in {"concat", "encode"}) =>
       Joined(jname) \notin jfs


\* an invocation is started by this step
InvocationStarts ==
    /\ jpc \in {"loop", "concat", "encode"}
    /\ jpc' \in {"transcoding", "concatenating", "encoding"}

\* C25: once the cancellation signal is set, join starts no transcode, no
\* concatenation and no encode.
C25_NoInvocationStartsAfterCancel == [][cancelEvent => ~InvocationStarts]_vars

\* the intermediate file of the invocation c of this join
OutputOf(c) ==
    IF c.step = "transcode" THEN Wav(jfiles[c.input])
    ELSE IF c.step = "concat" THEN ConcatWav
    ELSE Joined(jname)
\* the manifest has been written
ListWritten == jpc \in {"concat", "concatenating", "encode", "encoding"} \/ Len(jcalls) > Len(jfiles)

\* C26: when join has ended without keep_temp, no per-input WAV of a transcode
\* that ran, no manifest and no concatenated WAV is left in the output
\* directory; with keep_temp, every intermediate file an invocation that exited
\* with 0 wrote, and the manifest once written, is still there.
C26_TemporariesRemovedUnlessKept ==
    JoinEnded =>
        IF jkeep
          THEN /\ \A k \in 1..Len(jcalls) :
                     (jcalls[k].step # "encode" /\ jcalls[k].rc = 0) =>
                         OutputOf(jcalls[k]) \in jfs
               /\ Len(jcalls) > Len(jfiles) => ListFile \in jfs
          ELSE /\ \A k \in 1..Len(jcalls) :
                     jcalls[k].step # "encode" => OutputOf(jcalls[k]) \notin jfs
               /\ ListFile \notin jfs
               /\ ConcatWav \notin jfs

\* the input file at position i: its directory and its stem
InputFile(i) == <<jdirs[i], jfiles[i]>>

\* C29: once the manifest is written it lists one intermediate per input, in
\* input order, and two different input files never have the same
\* intermediate file, also when they share a stem.
C29_DistinctInputsDistinctIntermediates ==
    ListWritten =>
        /\ Len(jtmp) = Len(jfiles)
        /\ \A i \in 1..Len(jtmp) : jtmp[i] = Wav(jfiles[i])
        /\ \A i, j \in 1..Len(jtmp) :
              InputFile(i) # InputFile(j) => jtmp[i] # jtmp[j]

\* ======================================================================
\* CUE sheet
\* ======================================================================
RECURSIVE SumOut(_, _)
\* sum of what ffprobe printed for the first n parts
SumOut(parts, n) == IF n = 0 THEN 0 ELSE SumOut(parts, n - 1) + parts[n].out

\* the offset an INDEX 01 mm:ss:ff line stands for, in frames
FramesAt(ix) == (ix[1] * 60 + ix[2]) * Fps + ix[3]
CueWritten ==
    /\ cuepc = "done"
    /\ Len(cueLog) > 0
    /\ cueLog[Len(cueLog)] = "Wrote CUE"

C22_RunCaptureReturnsStdoutOnExitZero ==
    \A i \in 1..Len(cueMeta) :
        LET child == [out |-> cueParts[i].out, rc |-> cueParts[i].rc]
            r == run_capture(child)
        IN  /\ child.rc = 0 => r.kind = "returned" /\ r.out = child.out
            /\ child.rc # 0 => r.kind = "raised"
            /\ child.rc = 0 => cueMeta[i].dur = child.out


RECURSIVE SumDur(_, _)
\* sum of the durations the probe gave for the first n parts
SumDur(meta, n) == IF n = 0 THEN 0 ELSE SumDur(meta, n - 1) + meta[n].dur

\* the three writers have finished on the same track list
AllWritten ==
    /\ CueWritten
    /\ chpc = "done" /\ Len(chChaps) = Len(chParts) /\ chParts = cueParts
    /\ plpc = "done" /\ plParts = cueParts

\* C27: for one track list, the CUE sheet, the chapters and the segment
\* playlist start every track i at the sum of the durations measured for the
\* tracks before it, and chapter i ends where chapter i + 1 starts.
C27_WritersAgreeOnOffsets ==
    AllWritten =>
        \A i \in 1..Len(cueParts) :
            LET before == SumDur(cueMeta, i - 1)
            IN  /\ FramesAt(cueIndex[i]) = FramesOf(before)
                /\ chChaps[i].start = MsOf(before)
                /\ plSegs[i].start = before
                /\ i < Len(cueParts) => chChaps[i].end = chChaps[i + 1].start

\* ======================================================================
\* Cookies
\* ======================================================================
Converted == ckFile = "cookies.json" /\ ckRet # "<not called>"
IsArray == ckData.kind \in {"array", "wrapped"}
HasControl(t) == \E i \in 1..Len(t) : t[i] \in {TAB, LF, CR}
Malformed(c) == ~c.obj \/ c.domain = <<>>
WellFormed(c) ==
    c.obj /\ c.domain # <<>> /\ ~HasControl(c.domain) /\ ~HasControl(c.path)
NotBlank(l) == l # <<>>
\* the lines of a text that are not empty
TextLines(t) == SelectSeq(Lines(t), NotBlank)
AllRecords(P(_)) == \A i \in 1..Len(ckData.records) : P(ckData.records[i])

\* C13: in a converted batch whose records are either malformed (not an
\* object, or without a domain) or well-formed, the output file is written
\* and holds, after the two header lines, exactly the lines of the well-formed
\* records in their order: a malformed record gives no line and does not stop
\* the others.
C13_MalformedRecordSkipped ==
    (Converted /\ IsArray /\ \A i \in 1..Len(ckData.records) :
         Malformed(ckData.records[i]) \/ WellFormed(ckData.records[i])) =>
       /\ ckRet = "cookies.txt"
       /\ ckfs["cookies.txt"] # NoFile
       /\ LET good == SelectSeq(ckData.records, WellFormed)
              out == TextLines(ckfs["cookies.txt"])
          IN  /\ Len(out) = 2 + Len(good)
              /\ \A i \in 1..Len(good) : out[2 + i] = CookieLine(good[i])

\* C14: the converted output never has more (non-empty) lines than the batch
\* has records, plus the two header lines.
C14_LineCountBounded ==
    (Converted /\ ckfs["cookies.txt"] # NoFile) =>
       Len(TextLines(ckfs["cookies.txt"])) <= Len(ckData.records) + 2

\* C15: a file converted from a batch of well-formed records, when it is
\* validated, gives ok = true from the file itself: no repaired copy is
\* written or used.
C15_ConvertedFileValidates ==
    (Converted /\ IsArray /\ AllRecords(WellFormed) /\ ckArg = "cookies.txt") =>
       /\ ckVal.ok
       /\ ckVal.from = "cookies.txt"
       /\ ~ckVal.repaired
       /\ ckfs["cookies.txt.withheader"] = NoFile

\* a validated conversion of two records: httpOnly with an empty value and
\* hostOnly false, and hostOnly absent with a non-empty value
C15_Witness ==
    /\ Converted /\ IsArray /\ AllRecords(WellFormed) /\ ckArg = "cookies.txt"
    /\ Len(ckData.records) = 2
    /\ ckData.records[1].httpOnly /\ ckData.records[1].value = <<>>
    /\ ckData.records[1].hostOnly = "false"
    /\ ckData.records[2].hostOnly = "absent" /\ ckData.records[2].value # <<>>
    /\ ckVal.ok

ObjectNoControl(c) == c.obj /\ ~HasControl(c.domain) /\ ~HasControl(c.path)

\* C16: in the file converted from records that are objects (without control
\* characters in domain and path), the line of each record has the
\* #HttpOnly_ prefix exactly when httpOnly is true, its flag is TRUE exactly
\* when its domain begins with a dot, and domain and flag follow hostOnly:
\* true gives the domain without its leading dots and FALSE, false gives a
\* domain with a leading dot and TRUE, absent leaves the domain as it is.
C16_FlagAndDotFollowHostOnly ==
    (Converted /\ IsArray /\ AllRecords(ObjectNoControl)) =>
       /\ ckfs["cookies.txt"] # NoFile
       /\ \A i \in 1..Len(ckData.records) :
             LET c == ckData.records[i]
                 f == SplitAt(Lines(ckfs["cookies.txt"])[2 + i], TAB)
                 prefixed == StartsWith(f[1], HttpOnlyPrefix)
                 dom == IF prefixed THEN Tail(f[1]) ELSE f[1]
             IN  /\ prefixed <=> c.httpOnly
                 /\ f[2] \in {<<"TRUE">>, <<"FALSE">>}
                 /\ (f[2] = <<"TRUE">>) <=> StartsWith(dom, ".")
                 /\ c.hostOnly = "true" =>
                       /\ f[2] = <<"FALSE">>
                       /\ \E k \in 0..Len(c.domain) :
                             /\ \A j \in 1..k : c.domain[j] = "."
                             /\ dom = SubSeq(c.domain, k + 1, Len(c.domain))
                 /\ c.hostOnly = "false" =>
                       /\ f[2] = <<"TRUE">>
                       /\ dom \in {c.domain, <<".">> \o c.domain}
                 /\ c.hostOnly = "absent" => dom = c.domain

\* a conversion with a hostOnly record whose domain had a leading dot and an
\* httpOnly record whose hostOnly is false and whose domain had none
C16_Witness ==
    /\ Converted /\ IsArray /\ AllRecords(ObjectNoControl)
    /\ Len(ckData.records) = 2
    /\ ckData.records[1].hostOnly = "true" /\ StartsWith(ckData.records[1].domain, ".")
    /\ ckData.records[2].hostOnly = "false" /\ ckData.records[2].httpOnly
    /\ ~StartsWith(ckData.records[2].domain, ".")
    /\ ckfs["cookies.txt"] # NoFile

\* C17: for a JSON cookies file holding records (objects with a domain),
\* prepare_cookies returns the path of an existing file that is the
\* Netscape header followed by one seven-field line per record, in order,
\* whether or not a browser was named.
C17_JsonGivesHeaderAndOneLinePerRecord ==
    (Converted /\ IsArray /\ \A i \in 1..Len(ckData.records) :
         ckData.records[i].obj /\ ckData.records[i].domain # <<>>) =>
       /\ ckRet = "cookies.txt"
       /\ ckfs["cookies.txt"] # NoFile
       /\ LET out == TextLines(ckfs["cookies.txt"])
          IN  /\ Len(out) = 2 + Len(ckData.records)
              /\ out[1] = <<Magic>>
              /\ \A i \in 1..Len(ckData.records) :
                    /\ Len(SplitAt(out[2 + i], TAB)) = 7
                    /\ out[2 + i] = CookieLine(ckData.records[i])

\* C18: after a validate call the file it was given is as before; the only
\* file that may have changed is its .withheader sibling, and only when the
\* given file did not begin with the header line; and an ok taken from the
\* repaired copy comes with a repair log line naming the copy.
C18_ValidateNeverModifiesOriginal ==
    ckArg # "" =>
       /\ ckfs[ckArg] = ckPre[ckArg]
       /\ \A p \in Paths : ckfs[p] # ckPre[p] =>
             /\ p # ckArg
             /\ p = ckArg \o ".withheader"
             /\ ckPre[ckArg] # NoFile
             /\ ~(Lines(ckPre[ckArg]) # <<>> /\ StartsWith(Lines(ckPre[ckArg])[1], Magic))
       /\ (ckVal.ok /\ ckVal.from # ckArg) =>
             /\ ckVal.from = ckArg \o ".withheader"
             /\ \E i \in 1..Len(ckLog) :
                   /\ ckLog[i].msg = "Cookie file missing header -> repaired"
                   /\ ckLog[i].name = ckVal.from

\* a headerless file validated through its repaired copy
C18_Witness ==
    /\ ckArg = "user.txt"
    /\ ckVal.ok /\ ckVal.repaired
    /\ ckfs["user.txt.withheader"] # NoFile
    /\ ckfs["user.txt"] = ckPre["user.txt"]

\* ======================================================================
\* Task runner
\* ======================================================================
Terminal == {"Done", "Cancelled", "Failed"}
RunEnded == rpc = "ended"

\* position of a status in Idle, Preparing, Downloading, PostProcessing,
\* Finalizing, {Done, Cancelled, Failed}; "Starting" is what the task reports
\* for its preparing state
Rank(st) ==
    CASE st = "Idle" -> 0
      [] st \in {"Preparing", "Starting"} -> 1
      [] st = "Downloading" -> 2
      [] st = "PostProcessing" -> 3
      [] st = "Finalizing" -> 4
      [] st \in Terminal -> 5

\* C7: a run during which (or before whose end) the cancellation signal was
\* raised ends with Cancelled as its last progress snapshot and never
\* reports Done.
C7_CancelledRunEndsCancelled ==
    (RunEnded /\ cancelSeen) =>
       /\ runSnaps # <<>>
       /\ runSnaps[Len(runSnaps)] = "Cancelled"
       /\ \A i \in 1..Len(runSnaps) : runSnaps[i] # "Done"

\* C8: the statuses a run reports only move forward in the order of the run's
\* states, a terminal status is never followed by another snapshot, and a run
\* that has ended has reported exactly one terminal status, as its last.
C8_ForwardOnlyOneTerminal ==
    /\ \A i \in 1..(Len(runSnaps) - 1) :
          /\ runSnaps[i] \notin Terminal
          /\ Rank(runSnaps[i]) <= Rank(runSnaps[i + 1])
    /\ RunEnded => (runSnaps # <<>> /\ runSnaps[Len(runSnaps)] \in Terminal)

\* a run that took the cancel branch: Starting, then Cancelled, then nothing
C8_Witness ==
    /\ RunEnded
    /\ runSnaps = <<"Starting", "Cancelled">>
\* ======================================================================
\* Per-file stages: sanitize, dedup-artist, tag
\* ======================================================================
\* the lines with which a stage reports a failure on a file
FailureLines == {"Sanitize/rename failed", "Failed to tag"}
\* the lines with which a stage reports that it renamed a file
RenameLines == {"Renamed (sanitized)", "Adjusted duplicate", "Renamed (dedup artist)"}
\* the stage has logged a failure that names the file at position i
FailureLogged(i) ==
    \E k \in 1..Len(sgLog) : sgLog[k].msg \in FailureLines /\ sgLog[k].name = sgFiles[i]
\* the stage has returned after going through its files
StageEnded == sgpc = "done" /\ sgLog # <<Line("mutagen not installed; skipping ID3 tagging.", <<>>)>>

\* C19: when a sanitize, dedup-artist or tag stage has returned, every file
\* was processed, sanitize and dedup return as many files as they were given,
\* and every file on which a rename or a tag write failed has a logged failure
\* line naming it and was passed on unchanged at its position (its name for
\* sanitize and dedup, its frames for tag).
C19_FailureLoggedAndFilePassedOn ==
    StageEnded =>
        /\ sgI = Len(sgFiles) + 1
        /\ sgOp \in {"sanitize", "dedup"} => Len(sgOut) = Len(sgFiles)
        /\ \A i \in sgErr :
              /\ FailureLogged(i)
              /\ sgOp \in {"sanitize", "dedup"} =>
                    \/ sgOut[i] = sgFiles[i]
                    \/ \E k \in 1..Len(sgLog) :
                          sgLog[k].msg \in RenameLines /\ sgLog[k].name = sgFiles[i]
              /\ sgOp = "tag" => sgTags[i] = sgTags0[i]

\* the name follows `[NN - ]Artist - Title`: at least two parts between " - ",
\* none of them empty
FollowsConvention(stem) ==
    LET parts == SplitStr(stem, Sep)
    IN  Len(parts) >= 2 /\ \A k \in 1..Len(parts) : Strip(parts[k]) # <<>>
\* the ways to read such a name: without NN, and with NN when the first part is
\* a number and two more parts follow it
Readings(stem) ==
    LET parts == SplitStr(stem, Sep)
    IN  {[nn |-> <<>>, artist |-> parts[1], title |-> JoinStr(Tail(parts), Sep)]}
        \cup (IF Len(parts) >= 3 /\ IsDigit(parts[1])
                THEN {[nn |-> parts[1], artist |-> parts[2],
                       title |-> JoinStr(SubSeq(parts, 3, Len(parts)), Sep)]}
                ELSE {})

\* C20: every file tagged without error whose name follows
\* `[NN - ]Artist - Title` has, for some reading of its name, artist = Artist,
\* title = the rest after the artist's separator, track = NN when present and
\* as before otherwise, album = the given album when one is given and as
\* before otherwise, and its genre frame as before.
C20_TagsFollowFileName ==
    \A i \in 1..Len(sgFiles) :
        (sgOp = "tag" /\ StageEnded /\ i \notin sgErr /\ FollowsConvention(sgFiles[i])) =>
            \E r \in Readings(sgFiles[i]) :
                /\ sgTags[i].TPE1 = r.artist
                /\ sgTags[i].TIT2 = r.title
                /\ sgTags[i].TRCK = (IF r.nn # <<>> THEN r.nn ELSE sgTags0[i].TRCK)
                /\ sgTags[i].TALB = (IF sgAlbum # <<>> THEN sgAlbum ELSE sgTags0[i].TALB)
                /\ sgTags[i].TCON = sgTags0[i].TCON

\* the fixed maximum of attempts per file: whatever the number, a directory
\* with that many colliding names makes the loop go past it; 2 stands for it
AttemptCap == 2

\* C28: in the sanitize stage the collision loops make at most the fixed
\* maximum of attempts for a file, and a file is never renamed onto a different
\* file that exists.
C28_CollisionLoopsCapped ==
    [][(sgOp = "sanitize" /\ sgI' = sgI + 1) =>
          /\ sgProbes' <= AttemptCap
          /\ sgOut'[sgI] # sgFiles[sgI] => sgOut'[sgI] \notin sgDir]_vars

\* no character of the stem is one the sanitizer replaces or removes
NothingReplaced(stem) ==
    \A k \in 1..Len(stem) : stem[k] \notin Reserved \cup ControlChars

\* C30: sanitizing a sanitized stem changes nothing, and for a stem of the
\* form `[NN - ]Artist - Title` without characters the sanitizer replaces, the
\* sanitized stem parses to the same artist, title and track number as the
\* stem itself.
C30_SanitizeKeepsWhatTagParses ==
    \A i \in 1..Len(sgFiles) :
        LET stem == sgFiles[i]
            san == _sanitize_filename_component(stem)
        IN  /\ _sanitize_filename_component(san) = san
            /\ (FollowsConvention(stem) /\ NothingReplaced(stem)) =>
                  _parse_artist_title_trackno(san) = _parse_artist_title_trackno(stem)

\* ======================================================================
\* Tool resolver
\* ======================================================================
\* C24: when shutil.which finds the tool, resolve_tool_path returns that path
\* and looks at no install directory; it returns None only when which finds
\* nothing and none of the platform's known install locations exists; have is
\* true exactly when resolve_tool_path returns a path.
C24_PathFirstThenKnownDirs ==
    rspc = "done" =>
        /\ rsWhich # "" => rsRet = rsWhich /\ rsProbed = <<>>
        /\ rsRet = "None" =>
              /\ rsWhich = ""
              /\ Range(Candidates(rsExe, rsOs, rsEnv)) \cap rsExists = {}
        /\ rsVia = "have" => (rsHave <=> rsRet # "None")

\* on Windows, which finds nothing, the tool is at the second location looked
\* at, and have says it is there
C24_Witness ==
    /\ rspc = "done"
    /\ rsVia = "have"
    /\ rsOs.name = "nt"
    /\ rsWhich = ""
    /\ Len(rsProbed) >= 2
    /\ rsProbed[Len(rsProbed)] \in rsExists
    /\ rsHave

====
